---- MODULE Spec2Model ----
(***************************************************************************)
(* Living Clock firmware (src/firmware/src/main.cpp): the button state     *)
(* machine and the display cycle of loop(), setup(), updateDisplay(),      *)
(* handleButtonClick(), fetchPoem(), fetchClockIndex(), findClockImage().  *)
(*                                                                         *)
(* The program is single threaded.  One step of the model is one call of   *)
(* setup() or one iteration of loop(), with every function it calls.       *)
(* The functions are operators over a record s of the program's globals;   *)
(* the collaborators (clock, poem service, image download, panel, button   *)
(* pin) answer through the inputs of the step.                             *)
(***************************************************************************)
EXTENDS Integers, Sequences, FiniteSets, TLC

----------------------------------------------------------------------------
(* Program constants *)

HIGH == TRUE
LOW == FALSE

DEBOUNCE_MS == 50
DOUBLE_CLICK_MS == 400
NOTE_TIMEOUT_MS == 10000
REFRESH_MS == 10000
LOOP_DELAY_MS == 10
NOTE_SETTLE_MS == 50
LIKED_FLASH_MS == 1000
SETUP_DELAY_MS == 100
MAX_ENTRIES == 200
MAX_IMAGES == 5
NO_TIME == -1
NO_ZONE == -1
BEST_DIFF_INIT == 9999
WRAP_PERIOD == 1200
Two16 == 65536

Placeholder == "Time moves on / But clocks stand still"
DefaultFont == "INTER"

----------------------------------------------------------------------------
(* Bounds of the model *)

\* once MaxBusy ms have passed in iterations that follow each other
\* closely, the next iteration only starts after a long pause
MaxBusy == 900
\* a press that would take clickCount above MaxClicks is not offered
MaxClicks == 3
\* number of time entries of an index document
MaxDocEntries == 2

----------------------------------------------------------------------------
(* unsigned long arithmetic: a - b modulo 2^32, kept as two 16-bit halves *)

U32Sub(a, b) ==
    IF a >= b
    THEN [hi |-> (a - b) \div Two16, lo |-> (a - b) % Two16]
    ELSE [hi |-> (Two16 - 1) - ((b - a - 1) \div Two16),
          lo |-> (Two16 - 1) - ((b - a - 1) % Two16)]

\* d > k and d >= k for a constant k below 2^16
U32Gt(d, k) == d.hi > 0 \/ d.lo > k
U32Ge(d, k) == d.hi > 0 \/ d.lo >= k

----------------------------------------------------------------------------
(* JSON values of the collaborators' documents *)

Absent == [k |-> "none", v |-> ""]
JStr(x) == [k |-> "str", v |-> x]
JInt(x) == [k |-> "int", v |-> x]
IsStr(f) == f.k = "str"
IsInt(f) == f.k = "int"
ContainsKey(f) == f.k # "none"

\* the answers of the poem service: http is the status test, json the parse
PoemDoc(poem, pf, f, ff, pid, id, hasNote, body, nid) ==
    [http |-> TRUE, json |-> TRUE, poem |-> poem, preferredFont |-> pf,
     font |-> f, fontFamily |-> ff, poemId |-> pid, id |-> id,
     hasNote |-> hasNote, body |-> body, noteId |-> nid]

RespHttpFail == [PoemDoc(Absent, Absent, Absent, Absent, Absent, Absent,
                         FALSE, Absent, Absent) EXCEPT !.http = FALSE]
RespJsonFail == [PoemDoc(Absent, Absent, Absent, Absent, Absent, Absent,
                         FALSE, Absent, Absent) EXCEPT !.json = FALSE]
RespNoPoem == PoemDoc(Absent, Absent, Absent, Absent, JStr("id9"), Absent,
                      FALSE, Absent, Absent)
RespEmptyPoem == PoemDoc(JStr(""), Absent, JStr("PLAYFAIR"), Absent, Absent,
                         JStr("id3"), TRUE, JStr("N3"), JInt("7"))
RespA == PoemDoc(JStr("P1"), JStr("PLAYFAIR"), Absent, Absent, JStr("id1"),
                 Absent, TRUE, JStr("N1"), JStr("n1"))
RespB == PoemDoc(JStr("P2"), Absent, Absent, Absent, Absent, Absent,
                 FALSE, Absent, Absent)

Responses == {RespHttpFail, RespJsonFail, RespNoPoem, RespEmptyPoem,
              RespA, RespB}

----------------------------------------------------------------------------
(* The clock image index *)

\* a slot of clockIndex[i].images that was never written (zero-initialised)
EmptyImage == [url |-> "", zoneX |-> 0, zoneY |-> 0, zoneW |-> 0, zoneH |-> 0,
               strip |-> ""]

ImgA == [url |-> "a.png", tz |-> TRUE, x |-> 10, y |-> 20, w |-> 200, h |-> 100,
         strip |-> "top"]
ImgB == [url |-> "b.png", tz |-> FALSE, x |-> 0, y |-> 0, w |-> 0, h |-> 0,
         strip |-> "bottom"]
ImgC == [url |-> "c.png", tz |-> TRUE, x |-> 30, y |-> 40, w |-> 300, h |-> 80,
         strip |-> ""]

\* "t" of a time entry is a string of decimal digits
DocTimes == {<<0, 1, 0, 0>>, <<1, 2, 5, 9>>}
DocImageLists == {<<>>, <<ImgA>>, <<ImgA, ImgB>>}
DocEntries == [t : DocTimes, i : DocImageLists]

SeqsUpTo(S, n) == UNION {[1..k -> S] : k \in 0..n}

IndexDoc(times) == [http |-> TRUE, json |-> TRUE, times |-> times]
IndexHttpFail == [IndexDoc(<<>>) EXCEPT !.http = FALSE]
IndexJsonFail == [IndexDoc(<<>>) EXCEPT !.json = FALSE]
IndexDocs == {IndexHttpFail, IndexJsonFail}
                 \cup {IndexDoc(ts) : ts \in SeqsUpTo(DocEntries, MaxDocEntries)}

\* the index documents setup() is offered
SetupDocs == {IndexHttpFail, IndexDoc(<<>>),
              IndexDoc(<<[t |-> <<0, 1, 0, 0>>, i |-> <<ImgA, ImgB>>],
                         [t |-> <<1, 2, 5, 9>>, i |-> <<ImgA>>]>>)}

----------------------------------------------------------------------------
(* Time *)

(***************************************************************************)
(* millis() is a free-running counter and the program uses a timestamp t   *)
(* only in a test of now - t against a constant: DEBOUNCE_MS for           *)
(* lastDebounceTime, DOUBLE_CLICK_MS for lastClickTime, 10000 for          *)
(* noteDisplayTime and lastCheck.  After every step the origin of time is  *)
(* moved so that the next iteration starts at millis() = Origin, and a     *)
(* timestamp older than its constant is kept at that age: within an        *)
(* iteration the values of now, of the timestamps and of millis() stand    *)
(* in the relation the code sees, and every test has the value it has on   *)
(* the device (short of the counter wrapping after 49 days).  A timestamp  *)
(* the program overwrites before it can read it again is kept at its       *)
(* oldest: lastClickTime is read (line 1507) only under                    *)
(* waitingForDoubleClick, which is set (line 1500) right after             *)
(* lastClickTime (line 1499); noteDisplayTime is read (line 1515) only     *)
(* under showingNote, which is set (line 1190) together with it (1191).    *)
(***************************************************************************)
Origin == 2 * REFRESH_MS

Max(a, b) == IF a > b THEN a ELSE b
Min(a, b) == IF a < b THEN a ELSE b
Abs(a) == IF a < 0 THEN -a ELSE a

\* timestamp t after the origin has moved by shift, no older than cap
Aged(t, shift, cap) == Max(t - shift, Origin - cap)

Rebase(s) ==
    LET shift == s.clk - Origin
    IN [s EXCEPT !.clk = Origin,
                 !.elapsed = shift,
                 !.lastDebounceTime = Aged(@, shift, DEBOUNCE_MS + 1),
                 !.lastClickTime =
                     IF s.waitingForDoubleClick
                     THEN Aged(@, shift, DOUBLE_CLICK_MS + 1)
                     ELSE Origin - (DOUBLE_CLICK_MS + 1),
                 !.pressAt =
                     IF s.pending > 0
                     THEN Aged(@, shift, DOUBLE_CLICK_MS + 1)
                     ELSE Origin - (DOUBLE_CLICK_MS + 1),
                 !.noteDisplayTime =
                     IF s.showingNote
                     THEN Aged(@, shift, NOTE_TIMEOUT_MS + 1)
                     ELSE Origin - (NOTE_TIMEOUT_MS + 1),
                 !.lastCheck = Aged(@, shift, REFRESH_MS)]

----------------------------------------------------------------------------
(* State *)

VARIABLES
    pc,                    \* "setup" before setup() has run, then "loop"
    ms,                    \* what millis() returns when the next step starts
                           \* (always Origin, see Rebase)
    screen,                \* what the panel shows: [kind, text]
    fontsLoaded,
    clockIndex,            \* the slots of clockIndex[] written so far
    clockIndexCount,
    currentPoem, currentFont, currentPoemId, currentNote, currentNoteId,
    showingNote, noteDisplayTime,
    buttonState, lastButtonReading, lastDebounceTime, lastClickTime,
    clickCount, waitingForDoubleClick,
    lastDisplayedTime,
    lastCheck,             \* the static of loop()
    ev,                    \* what the last step did (observation only)
    pending,               \* presses counted since the last resolution
    pressAt,               \* time of the last counted press
    renderedTc,            \* time code of the last successful render
    forced,                \* who reset lastDisplayedTime since that render
    holdPresses,           \* debounced presses since the pin last read HIGH
                           \* (2 stands for two or more)
    allRendered,           \* no call of updateDisplay that went past line
                           \* 1371 has ended without a rendered clock
    shownPoemId,           \* the ID that arrived with the poem text of the
                           \* last successful render ("" with the placeholder)
    busy                   \* ms since the last long pause of the loop

vars == <<pc, ms, screen, fontsLoaded, clockIndex, clockIndexCount,
          currentPoem, currentFont, currentPoemId, currentNote, currentNoteId,
          showingNote, noteDisplayTime, buttonState, lastButtonReading,
          lastDebounceTime, lastClickTime, clickCount, waitingForDoubleClick,
          lastDisplayedTime, lastCheck, ev, pending, pressAt, renderedTc,
          forced, holdPresses, allRendered, shownPoemId, busy>>

\* the observation of a step in which nothing happened
NoEvent ==
    [step |-> "none", reading |-> HIGH, press |-> "none",
     hbc |-> <<>>, primary |-> 0, secondary |-> 0, noteDrawn |-> FALSE,
     likes |-> <<>>, timeout |-> FALSE, rawRead |-> FALSE,
     rawAtCheck |-> HIGH, elapsed |-> 0,
     noteAtRefresh |-> FALSE, periodic |-> FALSE, ud |-> <<>>,
     fci |-> "none", fciBefore |-> <<>>, fciCountBefore |-> 0,
     fciDoc |-> <<>>, fnd |-> <<>>, lay |-> <<>>,
     wrp |-> <<>>, tim |-> <<>>, run |-> <<>>]

\* the globals as one record, clk being the running value of millis()
State ==
    [clk |-> ms, elapsed |-> 0, screen |-> screen, fontsLoaded |-> fontsLoaded,
     clockIndex |-> clockIndex, clockIndexCount |-> clockIndexCount,
     currentPoem |-> currentPoem, currentFont |-> currentFont,
     currentPoemId |-> currentPoemId, currentNote |-> currentNote,
     currentNoteId |-> currentNoteId, showingNote |-> showingNote,
     noteDisplayTime |-> noteDisplayTime, buttonState |-> buttonState,
     lastButtonReading |-> lastButtonReading,
     lastDebounceTime |-> lastDebounceTime, lastClickTime |-> lastClickTime,
     clickCount |-> clickCount,
     waitingForDoubleClick |-> waitingForDoubleClick,
     lastDisplayedTime |-> lastDisplayedTime, lastCheck |-> lastCheck,
     ev |-> NoEvent, pending |-> pending, pressAt |-> pressAt,
     renderedTc |-> renderedTc, forced |-> forced,
     holdPresses |-> holdPresses, allRendered |-> allRendered,
     shownPoemId |-> shownPoemId]

Commit(r) ==
    /\ ms' = r.clk
    /\ screen' = r.screen
    /\ fontsLoaded' = r.fontsLoaded
    /\ clockIndex' = r.clockIndex
    /\ clockIndexCount' = r.clockIndexCount
    /\ currentPoem' = r.currentPoem
    /\ currentFont' = r.currentFont
    /\ currentPoemId' = r.currentPoemId
    /\ currentNote' = r.currentNote
    /\ currentNoteId' = r.currentNoteId
    /\ showingNote' = r.showingNote
    /\ noteDisplayTime' = r.noteDisplayTime
    /\ buttonState' = r.buttonState
    /\ lastButtonReading' = r.lastButtonReading
    /\ lastDebounceTime' = r.lastDebounceTime
    /\ lastClickTime' = r.lastClickTime
    /\ clickCount' = r.clickCount
    /\ waitingForDoubleClick' = r.waitingForDoubleClick
    /\ lastDisplayedTime' = r.lastDisplayedTime
    /\ lastCheck' = r.lastCheck
    /\ ev' = r.ev
    /\ pending' = r.pending
    /\ pressAt' = r.pressAt
    /\ renderedTc' = r.renderedTc
    /\ forced' = r.forced
    /\ holdPresses' = r.holdPresses
    /\ allRendered' = r.allRendered
    /\ shownPoemId' = r.shownPoemId

\* the globals of the program proper, for comparing two states
Globals(r) ==
    <<r.fontsLoaded, r.clockIndex, r.clockIndexCount, r.currentPoem,
      r.currentFont, r.currentPoemId, r.currentNote, r.currentNoteId,
      r.showingNote, r.noteDisplayTime, r.buttonState, r.lastButtonReading,
      r.lastDebounceTime, r.lastClickTime, r.clickCount,
      r.waitingForDoubleClick, r.lastDisplayedTime, r.lastCheck, r.screen>>

Init ==
    /\ pc = "setup"
    /\ ms = Origin
    /\ screen = [kind |-> "blank", text |-> ""]
    /\ fontsLoaded = FALSE
    /\ clockIndex = <<>>
    /\ clockIndexCount = 0
    /\ currentPoem = ""
    /\ currentFont = ""
    /\ currentPoemId = ""
    /\ currentNote = ""
    /\ currentNoteId = ""
    /\ showingNote = FALSE
    /\ noteDisplayTime = Origin
    /\ buttonState = HIGH
    /\ lastButtonReading = HIGH
    /\ lastDebounceTime = Origin
    /\ lastClickTime = Origin
    /\ clickCount = 0
    /\ waitingForDoubleClick = FALSE
    /\ lastDisplayedTime = NO_TIME
    /\ lastCheck = Origin
    /\ ev = NoEvent
    /\ pending = 0
    /\ pressAt = Origin
    /\ renderedTc = NO_TIME
    /\ forced = {}
    /\ holdPresses = 0
    /\ allRendered = TRUE
    /\ shownPoemId = ""
    /\ busy = 0

----------------------------------------------------------------------------
(* Time code, poem fetch, index fetch, image matching *)

\* to12HourFormat without line 182
to12HourFormat_NoTwelve(hour24, minute) == (hour24 % 12) * 100 + minute

to12HourFormat(hour24, minute) ==
    LET h == hour24 % 12
        hour12 == IF h = 0 THEN 12 ELSE h
    IN hour12 * 100 + minute

\* fetchPoem: the globals after the call and the value returned
fetchPoem(s, time24, resp) ==
    IF ~resp.http THEN [s |-> s, ok |-> FALSE]
    ELSE IF ~resp.json THEN [s |-> s, ok |-> FALSE]
    ELSE IF ~IsStr(resp.poem) THEN [s |-> s, ok |-> FALSE]
    ELSE
      LET font == IF ContainsKey(resp.preferredFont) THEN resp.preferredFont.v
                  ELSE IF ContainsKey(resp.font) THEN resp.font.v
                  ELSE IF ContainsKey(resp.fontFamily) THEN resp.fontFamily.v
                  ELSE DefaultFont
          pid == IF IsStr(resp.poemId) THEN resp.poemId.v
                 ELSE IF IsStr(resp.id) THEN resp.id.v
                 ELSE ""
          note == IF resp.hasNote /\ IsStr(resp.body) THEN resp.body.v ELSE ""
          nid == IF resp.hasNote /\ (IsStr(resp.noteId) \/ IsInt(resp.noteId))
                 THEN resp.noteId.v ELSE ""
          s1 == [s EXCEPT !.currentPoem = resp.poem.v,
                          !.currentFont = font,
                          !.currentPoemId = pid,
                          !.currentNote = note,
                          !.currentNoteId = nid]
      IN [s |-> s1, ok |-> s1.currentPoem # ""]

RECURSIVE Atoi(_)
Atoi(digits) ==
    IF digits = <<>> THEN 0
    ELSE 10 * Atoi(SubSeq(digits, 1, Len(digits) - 1)) + digits[Len(digits)]

\* a slot of clockIndex[] that was never written (zero-initialised)
EmptyEntry == [timeCode |-> 0, imageCount |-> 0, images |-> <<>>]

\* slot k (from 1) of an array of which seq holds the slots written so far
SlotAt(seq, k, empty) == IF k <= Len(seq) THEN seq[k] ELSE empty

\* lines 613-626: image img of the document written over the slot old
LoadImage(old, img) ==
    [url |-> img.url,
     zoneX |-> IF img.tz THEN img.x ELSE NO_ZONE,
     zoneY |-> IF img.tz THEN img.y ELSE old.zoneY,
     zoneW |-> IF img.tz THEN img.w ELSE old.zoneW,
     zoneH |-> IF img.tz THEN img.h ELSE old.zoneH,
     strip |-> img.strip]

\* lines 604-628: entry of the document written over the slot old
LoadEntry(old, entry) ==
    [timeCode |-> Atoi(entry.t),
     imageCount |-> Min(Len(entry.i), MAX_IMAGES),
     images |-> [k \in 1..Max(Min(Len(entry.i), MAX_IMAGES), Len(old.images))
                   |-> IF k <= Min(Len(entry.i), MAX_IMAGES)
                       THEN LoadImage(SlotAt(old.images, k, EmptyImage),
                                      entry.i[k])
                       ELSE old.images[k]]]

\* fetchClockIndex: the globals after the call and the value returned
fetchClockIndex(s, doc) ==
    IF ~doc.http THEN [s |-> s, ok |-> FALSE]
    ELSE IF ~doc.json THEN [s |-> s, ok |-> FALSE]
    ELSE
      [s |-> [s EXCEPT
                !.clockIndex =
                    [k \in 1..Max(Min(Len(doc.times), MAX_ENTRIES), Len(@))
                       |-> IF k <= Min(Len(doc.times), MAX_ENTRIES)
                           THEN LoadEntry(SlotAt(@, k, EmptyEntry),
                                          doc.times[k])
                           ELSE @[k]],
                !.clockIndexCount = Min(Len(doc.times), MAX_ENTRIES)],
       ok |-> Min(Len(doc.times), MAX_ENTRIES) > 0]

\* the scan of findClockImage from entry i (0-based) on
\* lines 644-650: the distance of an entry's time code from the target
MatchDiff_NoWrap(timeCode, targetTime) == Abs(timeCode - targetTime)

\* MatchDiff wrapping at 2400, a 24-hour scale
MatchDiff_Period24(timeCode, targetTime) ==
    LET d0 == Abs(timeCode - targetTime)
        wrapDiff == 2 * WRAP_PERIOD - d0
    IN IF wrapDiff > 0 /\ wrapDiff < d0 THEN wrapDiff ELSE d0

MatchDiff(timeCode, targetTime) ==
    LET d0 == Abs(timeCode - targetTime)
        wrapDiff == WRAP_PERIOD - d0
    IN IF wrapDiff > 0 /\ wrapDiff < d0 THEN wrapDiff ELSE d0

\* ScanIndex taking an entry that is as close as the best so far
RECURSIVE ScanIndex_LastWins(_, _, _, _, _, _)
ScanIndex_LastWins(index, count, targetTime, i, bestIndex, bestDiff) ==
    IF i >= count THEN [bestIndex |-> bestIndex, bestDiff |-> bestDiff]
    ELSE
      LET diff == MatchDiff(index[i + 1].timeCode, targetTime)
          better == diff <= bestDiff
          bi == IF better THEN i ELSE bestIndex
          bd == IF better THEN diff ELSE bestDiff
      IN IF diff = 0 THEN [bestIndex |-> bi, bestDiff |-> bd]
         ELSE ScanIndex_LastWins(index, count, targetTime, i + 1, bi, bd)

RECURSIVE ScanIndex(_, _, _, _, _, _)
ScanIndex(index, count, targetTime, i, bestIndex, bestDiff) ==
    IF i >= count THEN [bestIndex |-> bestIndex, bestDiff |-> bestDiff]
    ELSE
      LET diff == MatchDiff(index[i + 1].timeCode, targetTime)
          better == diff < bestDiff
          bi == IF better THEN i ELSE bestIndex
          bd == IF better THEN diff ELSE bestDiff
      IN IF diff = 0 THEN [bestIndex |-> bi, bestDiff |-> bd]
         ELSE ScanIndex(index, count, targetTime, i + 1, bi, bd)

\* line 668: whether random() is called for the selected entry
RandomDrawn(entry) == entry.imageCount > 1

\* PickImage drawing from one more than the images of the entry
PickImage_OffByOne(entry, rnd) ==
    IF entry.imageCount > 1 THEN rnd % (entry.imageCount + 1) ELSE 0

\* lines 667-671: rnd is what random() draws from
PickImage(entry, rnd) ==
    IF entry.imageCount > 1 THEN rnd % entry.imageCount ELSE 0

\* Picked, but an empty scan answers the first slot of the first entry
Picked_FirstSlot(index, r, rnd) ==
    IF r.bestIndex < 0
    THEN [found |-> TRUE, entry |-> 0, image |-> 0, diff |-> r.bestDiff,
          clock |-> EmptyImage]
    ELSE [found |-> TRUE, entry |-> r.bestIndex,
          image |-> PickImage(index[r.bestIndex + 1], rnd),
          diff |-> r.bestDiff,
          clock |-> SlotAt(index[r.bestIndex + 1].images,
                           PickImage(index[r.bestIndex + 1], rnd) + 1,
                           EmptyImage)]

\* lines 659-673: r is the result of the scan
Picked(index, r, rnd) ==
    IF r.bestIndex < 0
    THEN [found |-> FALSE, entry |-> -1, image |-> 0, diff |-> r.bestDiff,
          clock |-> EmptyImage]
    ELSE [found |-> TRUE, entry |-> r.bestIndex,
          image |-> PickImage(index[r.bestIndex + 1], rnd),
          diff |-> r.bestDiff,
          clock |-> SlotAt(index[r.bestIndex + 1].images,
                           PickImage(index[r.bestIndex + 1], rnd) + 1,
                           EmptyImage)]

\* findClockImage scanning from the second entry
findClockImage_FromSecond(index, count, targetTime, rnd) ==
    Picked(index, ScanIndex(index, count, targetTime, 1, -1, BEST_DIFF_INIT),
           rnd)

\* findClockImage: found = FALSE is nullptr
findClockImage(index, count, targetTime, rnd) ==
    Picked(index, ScanIndex(index, count, targetTime, 0, -1, BEST_DIFF_INIT),
           rnd)

----------------------------------------------------------------------------
(* Rendering and the display cycle *)

\* displayClockWithPoem: e.dl is the image download, e.draw is drawPng
displayClockWithPoem(s, img, e) ==
    IF ~img.found THEN [s |-> s, ok |-> FALSE]
    ELSE IF ~(e.dl /\ img.clock.url # "") THEN [s |-> s, ok |-> FALSE]
    ELSE IF ~e.draw THEN [s |-> s, ok |-> FALSE]
    ELSE [s |-> [s EXCEPT !.screen = [kind |-> "clock",
                                      text |-> s.currentPoem]],
          ok |-> TRUE]

\* how far a call of updateDisplay got
Did(fetched, fetchOK, matched, found, attempted, rendered) ==
    [fetched |-> fetched, fetchOK |-> fetchOK, matched |-> matched,
     found |-> found, attempted |-> attempted, rendered |-> rendered]

NothingDone == Did(FALSE, FALSE, FALSE, FALSE, FALSE, FALSE)

\* one entry of ev.ud: what a call of updateDisplay saw and did
UdCall(src, s0, e, tc, did, s1) ==
    [src |-> src, note |-> s0.showingNote, tc |-> tc,
     ldt |-> s0.lastDisplayedTime, rtc |-> s0.renderedTc,
     forced |-> s0.forced, count |-> s0.clockIndexCount,
     fetched |-> did.fetched, fetchOK |-> did.fetchOK,
     poem |-> s1.currentPoem,
     matched |-> did.matched, found |-> did.found,
     attempted |-> did.attempted,
     dl |-> did.attempted /\ e.dl,
     draw |-> did.attempted /\ e.dl /\ e.draw,
     rendered |-> did.rendered,
     ldtAfter |-> s1.lastDisplayedTime,
     changed |-> Globals(s1) # Globals(s0)]

\* s1 with the call added to ev.ud
Logged(src, s0, e, tc, did, s1) ==
    [s1 EXCEPT !.ev.ud = Append(@, UdCall(src, s0, e, tc, did, s1)),
               !.allRendered = @ /\ (did.rendered
                                      \/ (~did.fetched /\ tc # NO_TIME))]

\* lines 1388-1390: d is what displayClockWithPoem returned
AfterRender(src, s0, e, tc, fetchOK, d) ==
    Logged(src, s0, e, tc, Did(TRUE, fetchOK, TRUE, TRUE, TRUE, d.ok),
           IF d.ok
           THEN [d.s EXCEPT !.lastDisplayedTime = tc,
                            !.renderedTc = tc,
                            !.forced = {},
                            !.shownPoemId = IF fetchOK THEN d.s.currentPoemId
                                            ELSE ""]
           ELSE d.s)

\* lines 1381-1388: clock is what findClockImage returned
AfterMatch(src, s0, e, tc, fetchOK, s1, clock) ==
    IF ~clock.found
    THEN Logged(src, s0, e, tc,
                Did(TRUE, fetchOK, TRUE, FALSE, FALSE, FALSE), s1)
    ELSE AfterRender(src, s0, e, tc, fetchOK,
                     displayClockWithPoem(s1, clock, e))

\* AfterFetch, but a failed fetch ends the call
AfterFetch_GiveUp(src, s0, e, tc, f) ==
    IF ~f.ok
    THEN Logged(src, s0, e, tc,
                Did(TRUE, FALSE, FALSE, FALSE, FALSE, FALSE), f.s)
    ELSE AfterMatch(src, s0, e, tc, f.ok, f.s,
                    findClockImage(f.s.clockIndex, f.s.clockIndexCount, tc,
                                   e.rnd))

\* lines 1375-1381: f is what fetchPoem returned
AfterFetch(src, s0, e, tc, f) ==
    AfterMatch(src, s0, e, tc, f.ok,
               IF f.ok THEN f.s ELSE [f.s EXCEPT !.currentPoem = Placeholder],
               findClockImage(f.s.clockIndex, f.s.clockIndexCount, tc, e.rnd))

\* updateDisplay without the comparison of line 1369
updateDisplay_Always(s, e, src) ==
    IF ~e.clockOK
      THEN Logged(src, s, e, NO_TIME, NothingDone, s)
    ELSE AfterFetch(src, s, e, to12HourFormat(e.hour, e.minute),
                    fetchPoem(s, <<e.hour, e.minute>>, e.resp))

\* updateDisplay going on without a clock, the time code unset
updateDisplay_NoClock(s, e, src) ==
    IF ~e.clockOK
      THEN AfterFetch(src, s, e, NO_TIME,
                      fetchPoem(s, <<e.hour, e.minute>>, e.resp))
    ELSE IF to12HourFormat(e.hour, e.minute) = s.lastDisplayedTime
      THEN Logged(src, s, e, to12HourFormat(e.hour, e.minute),
                  NothingDone, s)
    ELSE AfterFetch(src, s, e, to12HourFormat(e.hour, e.minute),
                    fetchPoem(s, <<e.hour, e.minute>>, e.resp))

\* updateDisplay, called from src
updateDisplay(s, e, src) ==
    IF ~e.clockOK
      THEN Logged(src, s, e, NO_TIME, NothingDone, s)
    ELSE IF to12HourFormat(e.hour, e.minute) = s.lastDisplayedTime
      THEN Logged(src, s, e, to12HourFormat(e.hour, e.minute),
                  NothingDone, s)
    ELSE AfterFetch(src, s, e, to12HourFormat(e.hour, e.minute),
                    fetchPoem(s, <<e.hour, e.minute>>, e.resp))

\* displayNoteFullScreen: the panel refresh, millis(), then delay(50)
displayNoteFullScreen(s, e) ==
    IF s.currentNote = "" \/ ~s.fontsLoaded THEN s
    ELSE [s EXCEPT !.screen = [kind |-> "note", text |-> s.currentNote],
                   !.showingNote = TRUE,
                   !.noteDisplayTime = s.clk + e.noteDur,
                   !.clk = s.clk + e.noteDur + NOTE_SETTLE_MS,
                   !.ev.noteDrawn = TRUE]

\* markNoteSeen: a request is sent only for a non-empty note ID
markNoteSeen(s, e) == s

\* likePoem: the globals after the call and the value returned
likePoem(s, e) ==
    IF s.currentPoemId = "" THEN [s |-> s, ok |-> FALSE]
    ELSE [s |-> [s EXCEPT !.ev.likes = Append(@, s.currentPoemId)],
          ok |-> e.likeOK]

\* lines 519-537: the single click
PrimaryAction(a, e) ==
    IF a.showingNote
      THEN updateDisplay([a EXCEPT !.showingNote = FALSE,
                                   !.lastDisplayedTime = NO_TIME,
                                   !.forced = @ \cup {"dismiss"}],
                         e, "toggle")
    ELSE IF a.currentNote # ""
      THEN [markNoteSeen(displayNoteFullScreen(a, e), e)
            EXCEPT !.buttonState = HIGH, !.lastButtonReading = HIGH]
    ELSE a

\* lines 551-557: after "Liked!" and delay(1000)
AfterLiked(b, e) ==
    IF b.showingNote
    THEN displayNoteFullScreen(b, e)
    ELSE updateDisplay([b EXCEPT !.lastDisplayedTime = NO_TIME,
                                 !.forced = @ \cup {"like"}],
                       e, "like")

\* lines 541-558: l is what likePoem returned
SecondaryAction(l, e) ==
    IF l.ok
    THEN AfterLiked([l.s EXCEPT !.screen = [kind |-> "liked", text |-> ""],
                                !.clk = @ + e.flashDur + LIKED_FLASH_MS],
                    e)
    ELSE l.s

handleButtonClick(s, clicks, e) ==
    IF clicks = 1
      THEN PrimaryAction([s EXCEPT !.ev.primary = @ + 1], e)
    ELSE IF clicks >= 2
      THEN SecondaryAction(likePoem([s EXCEPT !.ev.secondary = @ + 1], e), e)
    ELSE s

----------------------------------------------------------------------------
(* The inputs of a step *)

\* wall-clock readings <<tm_hour, tm_min>> of getLocalTime
WallTimes == {<<0, 59>>, <<13, 0>>}

\* how long the panel takes to show the note (before millis() of line
\* 1191) and to show "Liked!"; the time of every other blocking call
\* (request, download, refresh) is part of the iteration's idle time
NoteDurations == {50}
FlashDurations == {100}
\* what elapses between two samples of millis() beyond the delays of the
\* code (the blocking calls of the iteration, scheduling): a short
\* iteration, or a long pause of the loop
ShortIdle == {90}
LongIdle == {10010}

Env(clockOK, wall, resp, dl, draw, rnd, likeOK) ==
    [clockOK |-> clockOK, hour |-> wall[1], minute |-> wall[2], resp |-> resp,
     dl |-> dl, draw |-> draw, rnd |-> rnd, likeOK |-> likeOK,
     noteDur |-> CHOOSE d \in NoteDurations : TRUE,
     flashDur |-> CHOOSE d \in FlashDurations : TRUE]

\* the answers of the collaborators during one step: every answer of the
\* poem service at either time, a failed download or drawPng, the second
\* image of an entry, no clock, a failed like
Envs ==
    {Env(TRUE, w, r, TRUE, TRUE, 0, TRUE) : w \in WallTimes, r \in Responses}
    \cup {Env(TRUE, w, RespB, x[1], x[2], 0, TRUE) :
             w \in WallTimes, x \in {<<FALSE, TRUE>>, <<TRUE, FALSE>>}}
    \cup {Env(TRUE, <<13, 0>>, RespA, TRUE, TRUE, 1, TRUE),
          Env(FALSE, <<0, 59>>, RespA, TRUE, TRUE, 0, TRUE),
          Env(TRUE, <<0, 59>>, RespA, TRUE, TRUE, 0, FALSE)}

\* used for a step that consults no collaborator
QuietEnv == Env(TRUE, <<0, 59>>, RespA, TRUE, TRUE, 0, TRUE)

----------------------------------------------------------------------------
(* loop() *)

\* lines 1474-1477
Debounce(s, now, reading) ==
    [s EXCEPT !.lastDebounceTime = IF reading # s.lastButtonReading
                                   THEN now ELSE @,
              !.lastButtonReading = reading]

\* PressBranch, but a counted press leaves lastClickTime alone
PressBranch_NoRestart(s, now, e) ==
    IF s.showingNote
    THEN [updateDisplay([s EXCEPT !.showingNote = FALSE,
                                  !.lastDisplayedTime = NO_TIME,
                                  !.forced = @ \cup {"dismiss"}],
                        e, "dismiss")
          EXCEPT !.clickCount = 0, !.waitingForDoubleClick = FALSE]
    ELSE [s EXCEPT !.clickCount = @ + 1,
                   !.lastClickTime = IF s.waitingForDoubleClick THEN @
                                     ELSE now,
                   !.waitingForDoubleClick = TRUE]

\* PressBranch, but every press is counted
PressBranch_Count(s, now, e) ==
    [s EXCEPT !.clickCount = @ + 1,
              !.lastClickTime = now,
              !.waitingForDoubleClick = TRUE]

\* lines 1489-1501: a debounced press
PressBranch(s, now, e) ==
    IF s.showingNote
    THEN [updateDisplay([s EXCEPT !.showingNote = FALSE,
                                  !.lastDisplayedTime = NO_TIME,
                                  !.forced = @ \cup {"dismiss"}],
                        e, "dismiss")
          EXCEPT !.clickCount = 0, !.waitingForDoubleClick = FALSE]
    ELSE [s EXCEPT !.clickCount = @ + 1,
                   !.lastClickTime = now,
                   !.waitingForDoubleClick = TRUE]

\* ev.press, pending and pressAt observe the press: a is the state before
\* lines 1489-1501, b the state after
PressObserved(a, b, now) ==
    [b EXCEPT !.ev.press = IF a.showingNote THEN "onNote" ELSE "offNote",
              !.pending = IF a.showingNote THEN 0 ELSE a.pending + 1,
              !.pressAt = IF a.showingNote THEN @ ELSE now,
              !.holdPresses = Min(@ + 1, 2)]

\* lines 1485-1503: buttonState has just changed
StateChanged(a, now, e) ==
    IF a.buttonState = LOW
    THEN PressObserved(a, PressBranch(a, now, e), now)
    ELSE a

\* lines 1480-1504
ButtonBranch(s, now, reading, e) ==
    IF U32Gt(U32Sub(now, s.lastDebounceTime), DEBOUNCE_MS)
       /\ reading # s.buttonState
    THEN StateChanged([s EXCEPT !.buttonState = reading], now, e)
    ELSE s

\* ClickBranch with >= for > at line 1507
ClickBranch_Ge(s, now, e) ==
    IF s.waitingForDoubleClick
       /\ U32Ge(U32Sub(now, s.lastClickTime), DOUBLE_CLICK_MS)
    THEN [handleButtonClick([s EXCEPT !.ev.hbc = Append(@, s.clickCount),
                                      !.pending = 0],
                            s.clickCount, e)
          EXCEPT !.clickCount = 0, !.waitingForDoubleClick = FALSE]
    ELSE s

\* ClickBranch without clickCount = 0 at line 1509
ClickBranch_KeepCount(s, now, e) ==
    IF s.waitingForDoubleClick
       /\ U32Gt(U32Sub(now, s.lastClickTime), DOUBLE_CLICK_MS)
    THEN [handleButtonClick([s EXCEPT !.ev.hbc = Append(@, s.clickCount),
                                      !.pending = 0],
                            s.clickCount, e)
          EXCEPT !.waitingForDoubleClick = FALSE]
    ELSE s

\* ClickBranch without lines 1507-1511
ClickBranch_Never(s, now, e) == s

\* ClickBranch without waitingForDoubleClick = false at line 1510
ClickBranch_KeepWaiting(s, now, e) ==
    IF s.waitingForDoubleClick
       /\ U32Gt(U32Sub(now, s.lastClickTime), DOUBLE_CLICK_MS)
    THEN [handleButtonClick([s EXCEPT !.ev.hbc = Append(@, s.clickCount),
                                      !.pending = 0],
                            s.clickCount, e)
          EXCEPT !.clickCount = 0]
    ELSE s

\* lines 1507-1511; ev.hbc observes the call
ClickBranch(s, now, e) ==
    IF s.waitingForDoubleClick
       /\ U32Gt(U32Sub(now, s.lastClickTime), DOUBLE_CLICK_MS)
    THEN [handleButtonClick([s EXCEPT !.ev.hbc = Append(@, s.clickCount),
                                      !.pending = 0],
                            s.clickCount, e)
          EXCEPT !.clickCount = 0, !.waitingForDoubleClick = FALSE]
    ELSE s

\* line 1515 reads the pin only if the two tests before it hold
RawRead(s, now) ==
    s.showingNote /\ U32Gt(U32Sub(now, s.noteDisplayTime), NOTE_TIMEOUT_MS)

\* TimeoutBranch without the digitalRead of line 1515
TimeoutBranch_NoPin(s, now, rawCheck, e) ==
    IF s.showingNote
       /\ U32Gt(U32Sub(now, s.noteDisplayTime), NOTE_TIMEOUT_MS)
    THEN updateDisplay([s EXCEPT !.showingNote = FALSE], e, "timeout")
    ELSE s

\* lines 1515-1519; rawCheck is the digitalRead of line 1515
TimeoutBranch(s, now, rawCheck, e) ==
    IF s.showingNote
       /\ U32Gt(U32Sub(now, s.noteDisplayTime), NOTE_TIMEOUT_MS)
       /\ rawCheck = HIGH
    THEN updateDisplay([s EXCEPT !.showingNote = FALSE], e, "timeout")
    ELSE s

\* observation of lines 1515-1519, s3 before and t4 after: whether the pin
\* was read and its level, whether the branch dismissed the note, and the
\* real time between line 1191 and line 1515
TimeoutObserved(s3, t4, now, rawCheck) ==
    IF s3.showingNote
    THEN [t4 EXCEPT !.ev.rawRead = RawRead(s3, now),
                    !.ev.rawAtCheck = IF RawRead(s3, now) THEN rawCheck
                                      ELSE HIGH,
                    !.ev.timeout = ~t4.showingNote,
                    !.holdPresses = IF RawRead(s3, now) /\ rawCheck = HIGH
                                    THEN 0 ELSE @,
                    !.ev.elapsed = IF ~t4.showingNote
                                   THEN s3.clk - s3.noteDisplayTime
                                   ELSE 0]
    ELSE t4

\* PeriodicBranch without the test of showingNote at line 1523
PeriodicBranch_OverNote(s, now, e) ==
    IF U32Ge(U32Sub(now, s.lastCheck), REFRESH_MS)
    THEN updateDisplay([s EXCEPT !.lastCheck = now,
                                 !.ev.noteAtRefresh = s.showingNote],
                       e, "periodic")
    ELSE [s EXCEPT !.ev.noteAtRefresh = s.showingNote]

\* lines 1522-1526; ev.noteAtRefresh is showingNote at line 1523
PeriodicBranch(s, now, e) ==
    IF ~s.showingNote /\ U32Ge(U32Sub(now, s.lastCheck), REFRESH_MS)
    THEN updateDisplay([s EXCEPT !.lastCheck = now,
                                 !.ev.noteAtRefresh = s.showingNote],
                       e, "periodic")
    ELSE [s EXCEPT !.ev.noteAtRefresh = s.showingNote]

\* line 1542, and the time until the next iteration samples millis()
EndOfLoop(s, idle) ==
    [s EXCEPT !.ev.periodic = \E k \in 1..Len(s.ev.ud) :
                                  s.ev.ud[k].src = "periodic",
              !.clk = @ + LOOP_DELAY_MS + idle]

\* lines 1513-1526 after the button branches
AfterButton(s3, now, rawCheck, e) ==
    PeriodicBranch(TimeoutObserved(s3, TimeoutBranch(s3, now, rawCheck, e),
                                   now, rawCheck),
                   now, e)

\* one iteration of loop(): now is millis() at line 1464
LoopBody(s, reading, rawCheck, idle, e) ==
    Rebase(EndOfLoop(
        AfterButton(
            ClickBranch(
                ButtonBranch(
                    Debounce([s EXCEPT !.ev = [NoEvent EXCEPT
                                                  !.step = "loop",
                                                  !.reading = reading],
                                       !.holdPresses = IF reading = HIGH
                                                       THEN 0 ELSE @],
                             s.clk, reading),
                    s.clk, reading, e),
                s.clk, e),
            s.clk, rawCheck, e),
        idle))

\* a step consults a collaborator iff it calls updateDisplay, likes or
\* draws the note; which of these it does not depend on their answers
Consults(r) ==
    r.ev.ud # <<>> \/ r.ev.secondary > 0 \/ r.ev.noteDrawn \/ r.ev.primary > 0

\* an iteration of loop(); the pin is read a second time only where line
\* 1515 reads it
LoopWith(envs) ==
    /\ pc = "loop"
    /\ \E reading \in BOOLEAN,
          idle \in (IF busy <= MaxBusy THEN ShortIdle ELSE {}) \cup LongIdle :
         \E rawCheck \in
               (IF LoopBody(State, reading, HIGH, idle, QuietEnv).ev.rawRead
                THEN BOOLEAN ELSE {HIGH}) :
           \E e \in (IF Consults(LoopBody(State, reading, rawCheck, idle,
                                          QuietEnv))
                     THEN envs ELSE {QuietEnv}) :
             \E r \in {LoopBody(State, reading, rawCheck, idle, e)} :
                /\ r.clickCount <= MaxClicks
                /\ Commit(r)
                /\ busy' = IF idle \in LongIdle THEN 0
                           ELSE Min(busy + r.elapsed, MaxBusy + 1)
    /\ pc' = "loop"

Loop == LoopWith(Envs)

----------------------------------------------------------------------------
(* setup() *)

Shown(s, kind, text) == [s EXCEPT !.screen = [kind |-> kind, text |-> text]]

\* lines 1443-1460: f is what fetchClockIndex returned
AfterIndex(f, e) ==
    IF ~f.ok
    THEN [Shown(f.s, "error", "Index load failed") EXCEPT !.ev.fci = "fail"]
    ELSE updateDisplay([f.s EXCEPT !.ev.fci = "ok"], e, "setup")

\* lines 1430-1443; ev.fciBefore, fciCountBefore and fciDoc observe the call
LoadIndex(s, fonts, doc, e) ==
    AfterIndex(fetchClockIndex(
                   [Shown(s, "status", "Loading clock index...")
                    EXCEPT !.fontsLoaded = fonts,
                           !.ev.fciBefore = s.clockIndex,
                           !.ev.fciCountBefore = s.clockIndexCount,
                           !.ev.fciDoc = doc.times],
                   doc),
               e)

\* lines 1394-1461: wifi, ntp, fonts are connectWiFi, syncTime, loadFonts
SetupBody(s, wifi, ntp, fonts, doc, e) ==
    IF ~wifi
      THEN Shown([s EXCEPT !.ev = [NoEvent EXCEPT !.step = "setup"],
                           !.clk = @ + SETUP_DELAY_MS],
                 "error", "WiFi failed")
    ELSE IF ~ntp
      THEN Shown([s EXCEPT !.ev = [NoEvent EXCEPT !.step = "setup"],
                           !.clk = @ + SETUP_DELAY_MS],
                 "error", "NTP sync failed")
    ELSE LoadIndex([s EXCEPT !.ev = [NoEvent EXCEPT !.step = "setup"],
                             !.clk = @ + SETUP_DELAY_MS],
                   fonts, doc, e)

SetupWith(envs) ==
    /\ pc = "setup"
    /\ \E wifi \in BOOLEAN, ntp \in BOOLEAN, fonts \in BOOLEAN,
          doc \in SetupDocs, e \in envs :
         Commit(Rebase(SetupBody(State, wifi, ntp, fonts, doc, e)))
    /\ busy' = 0
    /\ pc' = "loop"

Setup == SetupWith(Envs)

Next == Setup \/ Loop

Spec == Init /\ [][Next]_vars

\* the collaborators' answers offered where the progress of the loop is
\* studied: a poem with a note, a poem without, a like that fails
LiveEnvs == {QuietEnv,
             Env(TRUE, <<0, 59>>, RespB, TRUE, TRUE, 0, TRUE),
             Env(TRUE, <<0, 59>>, RespA, TRUE, TRUE, 0, FALSE)}

SetupLive == SetupWith(LiveEnvs)

LoopLive == LoopWith(LiveEnvs)

NextLive == SetupLive \/ LoopLive

\* the Arduino core runs setup() and then calls loop() again whenever it
\* returns, millis() advancing between two calls. An iteration is possible
\* in every state after setup(), so that weak fairness of the loop says
\* that iterations keep occurring
SpecLive ==
    Init /\ [][NextLive]_vars /\ WF_vars(SetupLive) /\ []<><<LoopLive>>_vars

----------------------------------------------------------------------------
(* fetchClockIndex as a function of the catalog and the document *)

\* one call of fetchClockIndex on the catalog as it stands, with any
\* document; the catalog is empty before the first call, as at line 1443
FetchIndex ==
    /\ pc = "setup"
    /\ \E doc \in IndexDocs :
         \E f \in {fetchClockIndex(
                       [State EXCEPT !.ev = [NoEvent EXCEPT
                                        !.step = "index",
                                        !.fciBefore = clockIndex,
                                        !.fciCountBefore = clockIndexCount,
                                        !.fciDoc = doc.times]],
                       doc)} :
           Commit([f.s EXCEPT !.ev.fci = IF f.ok THEN "ok" ELSE "fail"])
    /\ UNCHANGED <<pc, busy>>

NextIndex == FetchIndex

SpecIndex == Init /\ [][NextIndex]_vars

----------------------------------------------------------------------------
(* findClockImage on its own: a catalog is loaded, then matched once *)

\* the least and the greatest code to12HourFormat gives: 1:00 and 12:59
MinCode == to12HourFormat(13, 0)
MaxCode == to12HourFormat(12, 59)
MaxCatalog == 3
MaxRnd == 5

TimeCodes == MinCode..MaxCode
MatchCodes == {100, 130, 700, 1230, 1259}
MatchTargets == {100, 115, 700, 1155, 1259}
Rnds == 0..MaxRnd

\* the four digits of "t" for a time code
Digits(n) == <<n \div 1000, (n \div 100) % 10, (n \div 10) % 10, n % 10>>

DocImages(n) == SubSeq(<<ImgA, ImgB, ImgC>>, 1, n)
MatchEntries == {[t |-> Digits(c), i |-> DocImages(n)] : c \in MatchCodes, n \in 1..3}
PairDocs == {IndexDoc(<<[t |-> Digits(a), i |-> DocImages(1)]>>) : a \in TimeCodes}
MatchDocs ==
    PairDocs \cup {IndexDoc(ts) : ts \in SeqsUpTo(MatchEntries, MaxCatalog) \ {<<>>}}

\* the targets offered: every code against a catalog of one single-image
\* entry, the chosen ones against the others
TargetsFor(index, count) ==
    IF count = 1 /\ index[1].imageCount = 1 THEN TimeCodes ELSE MatchTargets

\* the catalog as fetchClockIndex leaves it for a document (line 1452)
LoadCatalog ==
    /\ pc = "setup"
    /\ ev.step = "none"
    /\ \E doc \in MatchDocs :
         \E f \in {fetchClockIndex([State EXCEPT !.ev.step = "index"], doc)} :
           Commit([f.s EXCEPT !.ev.fci = IF f.ok THEN "ok" ELSE "fail"])
    /\ UNCHANGED <<pc, busy>>

\* what one call of findClockImage was asked and answered
Matched(targetTime, img, drew) ==
    [target |-> targetTime, found |-> img.found, entry |-> img.entry,
     diff |-> img.diff, image |-> img.image, clock |-> img.clock,
     drew |-> drew]

\* one call of findClockImage (line 1376) on the loaded catalog
FindImage ==
    /\ pc = "setup"
    /\ ev.step = "index"
    /\ \E targetTime \in TargetsFor(clockIndex, clockIndexCount), rnd \in Rnds :
         \E img \in {findClockImage(clockIndex, clockIndexCount,
                                     targetTime, rnd)} :
           ev' = [NoEvent EXCEPT
                    !.step = "match",
                    !.fnd = Matched(targetTime, img,
                              img.found
                                /\ RandomDrawn(clockIndex[img.entry + 1]))]
    /\ UNCHANGED <<pc, ms, screen, fontsLoaded, clockIndex, clockIndexCount,
                   currentPoem, currentFont, currentPoemId, currentNote,
                   currentNoteId, showingNote, noteDisplayTime, buttonState,
                   lastButtonReading, lastDebounceTime, lastClickTime,
                   clickCount, waitingForDoubleClick, lastDisplayedTime,
                   lastCheck, pending, pressAt, renderedTc, forced,
                   holdPresses, allRendered, shownPoemId, busy>>

NextMatch == LoadCatalog \/ FindImage

SpecMatch == Init /\ [][NextMatch]_vars

----------------------------------------------------------------------------
(* Text layout: wrapText, calculateOptimalLayout, wrapTextForFont, the
   font-size searches of renderPoemText and displayNoteFullScreen.
   A text is a sequence of characters, positions count from 0 as in the
   source, and a font is the advance of its glyphs in tenths of the font
   size. *)

POEM_MAX_LINES == 6
NOTE_MAX_LINES == 8
FONT_SIZE_MAX == 72
FONT_SIZE_MIN == 24
FONT_SIZE_STEP == 4
FIXED_SIZE_MAX == 5
FIXED_SIZE_MIN == 2
BASE_CHAR_WIDTH == 6
BASE_CHAR_HEIGHT == 8
FIXED_SPACING == 4
MIN_CHARS_PER_LINE == 8
MEASURED_FILL == 75
FIXED_FILL == 60
SCREEN_WIDTH == 960
SCREEN_HEIGHT == 540
TOP_MARGIN == 30
BOTTOM_MARGIN == 30
SIDE_MARGIN == 60
STRIP_WIDTH == 880
STRIP_HEIGHT == 160

\* String::substring(from, to), String::charAt, String::lastIndexOf
SubString(text, from, to) == SubSeq(text, from + 1, Min(to, Len(text)))

CharAt(text, i) == IF i >= 0 /\ i < Len(text) THEN text[i + 1] ELSE ""

LastIndexOf(text, ch) ==
    LET at == {k \in 1..Len(text) : text[k] = ch}
    IN IF at = {} THEN -1 ELSE (CHOOSE k \in at : \A j \in at : j <= k) - 1

\* line 1022: String::replace(" / ", " "), left to right
RECURSIVE ReplaceBreaks(_)
ReplaceBreaks(text) ==
    IF Len(text) >= 3 /\ SubSeq(text, 1, 3) = <<" ", "/", " ">>
      THEN <<" ">> \o ReplaceBreaks(SubSeq(text, 4, Len(text)))
    ELSE IF text = <<>> THEN <<>>
    ELSE <<Head(text)>> \o ReplaceBreaks(Tail(text))

\* lines 947-951: the width of the bounding box, the sum of the advances
getTextWidth(text, fontSize, glyph) ==
    LET spaces == Cardinality({k \in 1..Len(text) : text[k] = " "})
    IN ((spaces * glyph.space + (Len(text) - spaces) * glyph.letter)
          * fontSize) \div 10

\* lines 875-877 and 984-986
RECURSIVE SkipSpaces(_, _)
SkipSpaces(text, pos) ==
    IF pos < Len(text) /\ CharAt(text, pos) = " "
      THEN SkipSpaces(text, pos + 1)
    ELSE pos

\* lines 862-864
RECURSIVE BreakBack(_, _, _)
BreakBack(text, pos, breakPos) ==
    IF breakPos > pos /\ CharAt(text, breakPos) # " "
      THEN BreakBack(text, pos, breakPos - 1)
    ELSE breakPos

\* ForcedBreak one character further at line 868
ForcedBreak_Further(pos, maxCharsPerLine, breakPos) ==
    IF breakPos = pos THEN pos + maxCharsPerLine + 1 ELSE breakPos

\* lines 866-869
ForcedBreak(pos, maxCharsPerLine, breakPos) ==
    IF breakPos = pos THEN pos + maxCharsPerLine ELSE breakPos

\* lines 851-878: the loop of wrapText from position pos
RECURSIVE WrapFrom(_, _, _, _, _)
RECURSIVE WrapBreak(_, _, _, _, _, _)
WrapFrom(text, maxCharsPerLine, maxLines, pos, lines) ==
    IF ~(pos < Len(text) /\ Len(lines) < maxLines) THEN lines
    ELSE IF Len(text) - pos <= maxCharsPerLine
      THEN Append(lines, SubString(text, pos, Len(text)))
    ELSE WrapBreak(text, maxCharsPerLine, maxLines, pos, lines,
                   ForcedBreak(pos, maxCharsPerLine,
                               BreakBack(text, pos, pos + maxCharsPerLine)))

\* lines 871-877: the line is emitted and the spaces after it skipped
WrapBreak(text, maxCharsPerLine, maxLines, pos, lines, breakPos) ==
    WrapFrom(text, maxCharsPerLine, maxLines, SkipSpaces(text, breakPos),
             Append(lines, SubString(text, pos, breakPos)))

\* wrapText without the test of lineCount against maxLines
wrapText_NoLimit(text, maxCharsPerLine, maxLines) ==
    WrapFrom(text, maxCharsPerLine, Len(text) + 1, 0, <<>>)

\* wrapText: outLines[0..lineCount-1]
wrapText(text, maxCharsPerLine, maxLines) ==
    WrapFrom(text, maxCharsPerLine, maxLines, 0, <<>>)

\* line 969: the test of the shrinking loop
TooWide(text, pos, endPos, maxWidth, fontSize, glyph) ==
    /\ getTextWidth(SubString(text, pos, endPos), fontSize, glyph) > maxWidth
    /\ endPos > pos + 1

\* ShrinkStep taking a space at the very start of the line too
ShrinkStep_AnySpace(text, pos, endPos) ==
    LET spacePos == LastIndexOf(SubString(text, pos, endPos), " ")
    IN IF spacePos >= 0 THEN pos + spacePos ELSE endPos - 1

\* lines 970-976: endPos after one pass of the shrinking loop
ShrinkStep(text, pos, endPos) ==
    LET spacePos == LastIndexOf(SubString(text, pos, endPos), " ")
    IN IF spacePos > 0 THEN pos + spacePos ELSE endPos - 1

\* lines 969-978: the end of the line that starts at pos
RECURSIVE ShrinkEnd(_, _, _, _, _, _)
ShrinkEnd(text, pos, endPos, maxWidth, fontSize, glyph) ==
    IF TooWide(text, pos, endPos, maxWidth, fontSize, glyph)
      THEN ShrinkEnd(text, pos, ShrinkStep(text, pos, endPos),
                     maxWidth, fontSize, glyph)
    ELSE endPos

\* lines 963-987: the loop of wrapTextForFont from position pos
RECURSIVE WrapFontFrom(_, _, _, _, _, _, _)
RECURSIVE WrapFontBreak(_, _, _, _, _, _, _, _)
WrapFontFrom(text, maxWidth, fontSize, glyph, maxLines, pos, lines) ==
    IF ~(pos < Len(text) /\ Len(lines) < maxLines) THEN lines
    ELSE WrapFontBreak(text, maxWidth, fontSize, glyph, maxLines, pos, lines,
                       ShrinkEnd(text, pos, Len(text), maxWidth, fontSize,
                                 glyph))

\* lines 980-986
WrapFontBreak(text, maxWidth, fontSize, glyph, maxLines, pos, lines, endPos) ==
    WrapFontFrom(text, maxWidth, fontSize, glyph, maxLines,
                 SkipSpaces(text, endPos),
                 Append(lines, SubString(text, pos, endPos)))

\* wrapTextForFont: outLines[0..lineCount-1]
wrapTextForFont(text, maxWidth, fontSize, glyph, maxLines) ==
    WrapFontFrom(text, maxWidth, fontSize, glyph, maxLines, 0, <<>>)

\* int lineHeight = fontSize * 1.3
LineHeight(fontSize) == (fontSize * 13) \div 10

\* line 1045
PoemHeight(lineCount, fontSize) == lineCount * LineHeight(fontSize)

\* line 1149, in tenths of a pixel: lineHeight and descender are floats
NoteHeight10(lineCount, fontSize) ==
    (lineCount - 1) * 13 * fontSize + 10 * fontSize + 2 * fontSize

\* line 915
FixedHeight(lineCount, fontSize) ==
    lineCount * (BASE_CHAR_HEIGHT * fontSize)
      + (lineCount - 1) * (FIXED_SPACING * fontSize)

\* line 905
CharsPerLine(usableWidth, fontSize) ==
    usableWidth \div (fontSize * BASE_CHAR_WIDTH)

\* the outcome of a search: accepted is the break out of the loop
Laid(size, lines, lineCount, accepted) ==
    [size |-> size, lines |-> lines, lineCount |-> lineCount,
     accepted |-> accepted]

\* lines 1039-1055: the search of renderPoemText from fontSize down
RECURSIVE PoemSearch(_, _, _, _, _)
RECURSIVE PoemTry(_, _, _, _, _, _)
PoemSearch(text, usableWidth, usableHeight, glyph, fontSize) ==
    IF fontSize < FONT_SIZE_MIN THEN Laid(FONT_SIZE_MIN, <<text>>, 1, FALSE)
    ELSE PoemTry(text, usableWidth, usableHeight, glyph, fontSize,
                 wrapTextForFont(text, usableWidth, fontSize, glyph,
                                 POEM_MAX_LINES))

\* lines 1044-1054
PoemTry(text, usableWidth, usableHeight, glyph, fontSize, tempLines) ==
    IF PoemHeight(Len(tempLines), fontSize) <= usableHeight
         /\ Len(tempLines) <= POEM_MAX_LINES
      THEN Laid(fontSize, tempLines, Len(tempLines), TRUE)
    ELSE PoemSearch(text, usableWidth, usableHeight, glyph,
                    fontSize - FONT_SIZE_STEP)

\* the search of renderPoemText starting one step below the largest size
MeasuredLayout_Below(text, usableWidth, usableHeight, glyph) ==
    PoemSearch(text, usableWidth, usableHeight, glyph,
               FONT_SIZE_MAX - FONT_SIZE_STEP)

\* lines 1034-1055
MeasuredLayout(text, usableWidth, usableHeight, glyph) ==
    PoemSearch(text, usableWidth, usableHeight, glyph, FONT_SIZE_MAX)

\* lines 1134-1162: the search of displayNoteFullScreen
RECURSIVE NoteSearch(_, _, _, _, _)
RECURSIVE NoteTry(_, _, _, _, _, _)
NoteSearch(text, usableWidth, availableHeight, glyph, fontSize) ==
    IF fontSize < FONT_SIZE_MIN THEN Laid(FONT_SIZE_MIN, <<text>>, 1, FALSE)
    ELSE NoteTry(text, usableWidth, availableHeight, glyph, fontSize,
                 wrapTextForFont(text, usableWidth, fontSize, glyph,
                                 NOTE_MAX_LINES))

\* lines 1140-1161
NoteTry(text, usableWidth, availableHeight, glyph, fontSize, tempLines) ==
    IF NoteHeight10(Len(tempLines), fontSize) <= 10 * availableHeight
         /\ Len(tempLines) <= NOTE_MAX_LINES
      THEN Laid(fontSize, tempLines, Len(tempLines), TRUE)
    ELSE NoteSearch(text, usableWidth, availableHeight, glyph,
                    fontSize - FONT_SIZE_STEP)

\* lines 903-927: the search of calculateOptimalLayout
RECURSIVE FixedSearch(_, _, _, _)
RECURSIVE FixedTry(_, _, _, _, _)
FixedSearch(text, usableWidth, usableHeight, fontSize) ==
    IF fontSize < FIXED_SIZE_MIN THEN Laid(FIXED_SIZE_MIN, <<text>>, 1, FALSE)
    ELSE IF CharsPerLine(usableWidth, fontSize) < MIN_CHARS_PER_LINE
      THEN FixedSearch(text, usableWidth, usableHeight, fontSize - 1)
    ELSE FixedTry(text, usableWidth, usableHeight, fontSize,
                  wrapText(text, CharsPerLine(usableWidth, fontSize),
                           POEM_MAX_LINES))

\* lines 915-926
FixedTry(text, usableWidth, usableHeight, fontSize, tempLines) ==
    IF FixedHeight(Len(tempLines), fontSize) <= usableHeight
      THEN Laid(fontSize, tempLines, Len(tempLines), TRUE)
    ELSE FixedSearch(text, usableWidth, usableHeight, fontSize - 1)

\* calculateOptimalLayout
calculateOptimalLayout(fullText, zoneW, zoneH) ==
    FixedSearch(fullText, (zoneW * FIXED_FILL) \div 100,
                (zoneH * FIXED_FILL) \div 100, FIXED_SIZE_MAX)

\* what a layout was asked and what it answered
LaidOut(fn, mode, text, usableWidth, usableHeight, glyph, maxLines, laid) ==
    [fn |-> fn, mode |-> mode, text |-> text, usableWidth |-> usableWidth,
     usableHeight |-> usableHeight, glyph |-> glyph, maxLines |-> maxLines,
     size |-> laid.size, lines |-> laid.lines, lineCount |-> laid.lineCount,
     accepted |-> laid.accepted]

\* lines 999-1018: the width and the height of the zone on the display
DisplayW(img) == IF img.zoneX < 0 THEN STRIP_WIDTH ELSE img.zoneW * 2
DisplayH(img) == IF img.zoneX < 0 THEN STRIP_HEIGHT ELSE img.zoneH * 2

\* renderPoemText: the layout it draws
renderPoemText(poem, loaded, img, glyph) ==
    IF loaded
      THEN LaidOut("poem", "measured", ReplaceBreaks(poem),
                   (DisplayW(img) * MEASURED_FILL) \div 100,
                   (DisplayH(img) * MEASURED_FILL) \div 100, glyph,
                   POEM_MAX_LINES,
                   MeasuredLayout(ReplaceBreaks(poem),
                                  (DisplayW(img) * MEASURED_FILL) \div 100,
                                  (DisplayH(img) * MEASURED_FILL) \div 100,
                                  glyph))
    ELSE LaidOut("poem", "fixed", ReplaceBreaks(poem),
                 (DisplayW(img) * FIXED_FILL) \div 100,
                 (DisplayH(img) * FIXED_FILL) \div 100, glyph,
                 POEM_MAX_LINES,
                 calculateOptimalLayout(ReplaceBreaks(poem), DisplayW(img),
                                        DisplayH(img)))

\* lines 1125-1162: the layout displayNoteFullScreen draws
NoteLayout(note, glyph) ==
    LaidOut("note", "measured", note, SCREEN_WIDTH - SIDE_MARGIN * 2,
            SCREEN_HEIGHT - TOP_MARGIN - BOTTOM_MARGIN, glyph,
            NOTE_MAX_LINES,
            NoteSearch(note, SCREEN_WIDTH - SIDE_MARGIN * 2,
                       SCREEN_HEIGHT - TOP_MARGIN - BOTTOM_MARGIN, glyph,
                       FONT_SIZE_MAX))

MaxText == 5

Chars == {"a", "b", " "}

\* a word of n letters, and words of the given lengths with single spaces
Word(n) == [k \in 1..n |-> IF k % 2 = 1 THEN "a" ELSE "b"]

RECURSIVE Words(_)
Words(lens) ==
    IF Len(lens) = 0 THEN <<>>
    ELSE IF Len(lens) = 1 THEN Word(lens[1])
    ELSE Word(lens[1]) \o <<" ">> \o Words(Tail(lens))

LongShapes ==
    {<<7>>, <<9>>, <<10>>, <<49>>, <<3, 3, 3>>, <<1, 1, 1, 1, 1, 1, 1>>,
     <<8, 8, 8, 8, 8, 8, 8>>, <<1, 1, 1, 1, 1, 1, 1, 1, 1>>}

\* every text of up to MaxText characters, longer ones, a verse break
Texts ==
    SeqsUpTo(Chars, MaxText) \cup {Words(ls) : ls \in LongShapes}
      \cup {<<"a", "b", " ", "/", " ", "b", "a">>}

\* fonts: a letter of 0.6 of the font size, and one of ten times the font
\* size, which makes a character stand for a run of them
Glyphs == {[letter |-> 6, space |-> 3], [letter |-> 100, space |-> 50]}

Zone(w, h) == [EmptyImage EXCEPT !.zoneW = w, !.zoneH = h]
ZoneImages ==
    {[EmptyImage EXCEPT !.zoneX = NO_ZONE, !.strip = "top"],
     Zone(10, 270), Zone(40, 100), Zone(200, 40), Zone(85, 135)}

\* one call of renderPoemText (line 1221) on a poem, fonts loaded or not
LayoutPoem ==
    /\ pc = "setup"
    /\ ev.step = "none"
    /\ \E poem \in Texts, loaded \in BOOLEAN, img \in ZoneImages,
          glyph \in Glyphs :
         /\ currentPoem' = poem
         /\ fontsLoaded' = loaded
         /\ ev' = [NoEvent EXCEPT
                     !.step = "poem",
                     !.lay = renderPoemText(poem, loaded, img, glyph)]
    /\ UNCHANGED <<pc, ms, screen, clockIndex, clockIndexCount,
                   currentFont, currentPoemId, currentNote,
                   currentNoteId, showingNote, noteDisplayTime, buttonState,
                   lastButtonReading, lastDebounceTime, lastClickTime,
                   clickCount, waitingForDoubleClick, lastDisplayedTime,
                   lastCheck, pending, pressAt, renderedTc, forced,
                   holdPresses, allRendered, shownPoemId, busy>>

\* the layout of displayNoteFullScreen for a note; the function returns
\* at line 1112 for an empty note or without the fonts
LayoutNote ==
    /\ pc = "setup"
    /\ ev.step = "none"
    /\ \E note \in Texts \ {<<>>}, glyph \in Glyphs :
         /\ currentNote' = note
         /\ fontsLoaded' = TRUE
         /\ ev' = [NoEvent EXCEPT !.step = "note",
                                  !.lay = NoteLayout(note, glyph)]
    /\ UNCHANGED <<pc, ms, screen, clockIndex, clockIndexCount, currentPoem,
                   currentFont, currentPoemId, currentNoteId, showingNote,
                   noteDisplayTime, buttonState,
                   lastButtonReading, lastDebounceTime, lastClickTime,
                   clickCount, waitingForDoubleClick, lastDisplayedTime,
                   lastCheck, pending, pressAt, renderedTc, forced,
                   holdPresses, allRendered, shownPoemId, busy>>

NextLayout == LayoutPoem \/ LayoutNote

SpecLayout == Init /\ [][NextLayout]_vars

----------------------------------------------------------------------------
(* to12HourFormat on its own *)

Hours == 0..23
Minutes == 0..59

\* one call of to12HourFormat (line 1365) on a reading of the clock
ConvertTime ==
    /\ pc = "setup"
    /\ ev.step = "none"
    /\ \E hour24 \in Hours, minute \in Minutes :
         ev' = [NoEvent EXCEPT
                  !.step = "time",
                  !.tim = [hour24 |-> hour24, minute |-> minute,
                           code |-> to12HourFormat(hour24, minute)]]
    /\ UNCHANGED <<pc, ms, screen, fontsLoaded, clockIndex, clockIndexCount,
                   currentPoem, currentFont, currentPoemId, currentNote,
                   currentNoteId, showingNote, noteDisplayTime, buttonState,
                   lastButtonReading, lastDebounceTime, lastClickTime,
                   clickCount, waitingForDoubleClick, lastDisplayedTime,
                   lastCheck, pending, pressAt, renderedTc, forced,
                   holdPresses, allRendered, shownPoemId, busy>>

NextTime == ConvertTime

SpecTime == Init /\ [][NextTime]_vars

----------------------------------------------------------------------------
(* wrapText and wrapTextForFont on their own *)

WrapChars == {1, 2, 3, 8}
WrapLimits == {2, 6, 8}
WrapWidths == {15, 60, 840}
WrapSizes == {24, 52, 72}

\* what a wrapper was asked and what it answered; width is maxCharsPerLine
\* for wrapText and maxWidth for wrapTextForFont
Wrapped(fn, text, width, fontSize, glyph, maxLines, lines) ==
    [fn |-> fn, text |-> text, width |-> width, fontSize |-> fontSize,
     glyph |-> glyph, maxLines |-> maxLines, lines |-> lines,
     lineCount |-> Len(lines)]

\* one call of wrapText (line 910)
WrapByChars ==
    /\ pc = "setup"
    /\ ev.step = "none"
    /\ \E text \in Texts, maxCharsPerLine \in WrapChars, maxLines \in WrapLimits :
         ev' = [NoEvent EXCEPT
                  !.step = "wrap",
                  !.wrp = Wrapped("wrapText", text, maxCharsPerLine, 0, <<>>,
                                  maxLines,
                                  wrapText(text, maxCharsPerLine, maxLines))]
    /\ UNCHANGED <<pc, ms, screen, fontsLoaded, clockIndex, clockIndexCount,
                   currentPoem, currentFont, currentPoemId, currentNote,
                   currentNoteId, showingNote, noteDisplayTime, buttonState,
                   lastButtonReading, lastDebounceTime, lastClickTime,
                   clickCount, waitingForDoubleClick, lastDisplayedTime,
                   lastCheck, pending, pressAt, renderedTc, forced,
                   holdPresses, allRendered, shownPoemId, busy>>

\* one call of wrapTextForFont (lines 1041, 1136)
WrapByWidth ==
    /\ pc = "setup"
    /\ ev.step = "none"
    /\ \E text \in Texts, maxWidth \in WrapWidths, fontSize \in WrapSizes,
          glyph \in Glyphs, maxLines \in WrapLimits :
         ev' = [NoEvent EXCEPT
                  !.step = "wrap",
                  !.wrp = Wrapped("wrapTextForFont", text, maxWidth, fontSize,
                                  glyph, maxLines,
                                  wrapTextForFont(text, maxWidth, fontSize,
                                                  glyph, maxLines))]
    /\ UNCHANGED <<pc, ms, screen, fontsLoaded, clockIndex, clockIndexCount,
                   currentPoem, currentFont, currentPoemId, currentNote,
                   currentNoteId, showingNote, noteDisplayTime, buttonState,
                   lastButtonReading, lastDebounceTime, lastClickTime,
                   clickCount, waitingForDoubleClick, lastDisplayedTime,
                   lastCheck, pending, pressAt, renderedTc, forced,
                   holdPresses, allRendered, shownPoemId, busy>>

NextWrap == WrapByChars \/ WrapByWidth

SpecWrap == Init /\ [][NextWrap]_vars

----------------------------------------------------------------------------
(* wrapText and wrapTextForFont pass by pass: ev.run holds the arguments,
   the locals pos, endPos and the lines emitted so far, and where the
   call stands: at the test of the outer loop ("outer"), at the test of the
   shrinking loop ("inner"), or returned ("done") *)

MaxStepText == 4
StepLimits == {2, 8}
StepSizes == {24, 72}

\* every text of up to MaxStepText characters, and the longer ones
StepTexts ==
    SeqsUpTo(Chars, MaxStepText) \cup {Words(ls) : ls \in LongShapes}

Running(fn, text, width, fontSize, glyph, maxLines) ==
    [fn |-> fn, text |-> text, width |-> width, fontSize |-> fontSize,
     glyph |-> glyph, maxLines |-> maxLines, pos |-> 0, endPos |-> 0,
     lines |-> <<>>, at |-> "outer"]

OnlyEv ==
    UNCHANGED <<pc, ms, screen, fontsLoaded, clockIndex, clockIndexCount,
                currentPoem, currentFont, currentPoemId, currentNote,
                currentNoteId, showingNote, noteDisplayTime, buttonState,
                lastButtonReading, lastDebounceTime, lastClickTime,
                clickCount, waitingForDoubleClick, lastDisplayedTime,
                lastCheck, pending, pressAt, renderedTc, forced,
                holdPresses, allRendered, shownPoemId, busy>>

\* lines 848-849 and 960-961: a call is entered
WrapStart ==
    /\ pc = "setup"
    /\ ev.step = "none"
    /\ \/ \E text \in StepTexts, maxCharsPerLine \in WrapChars,
             maxLines \in StepLimits :
            ev' = [NoEvent EXCEPT
                     !.step = "wrapping",
                     !.run = Running("wrapText", text, maxCharsPerLine, 0,
                                     <<>>, maxLines)]
       \/ \E text \in StepTexts, maxWidth \in WrapWidths, fontSize \in StepSizes,
             glyph \in Glyphs, maxLines \in StepLimits :
            ev' = [NoEvent EXCEPT
                     !.step = "wrapping",
                     !.run = Running("wrapTextForFont", text, maxWidth,
                                     fontSize, glyph, maxLines)]
    /\ OnlyEv

\* lines 851 and 963: the test of the outer loop
LoopTest(r) == r.pos < Len(r.text) /\ Len(r.lines) < r.maxLines

\* lines 851, 880 and 963, 989: the outer loop ends and the call returns
WrapReturn ==
    /\ ev.step = "wrapping"
    /\ ev.run.at = "outer"
    /\ ~LoopTest(ev.run)
    /\ ev' = [ev EXCEPT !.step = "wrapped", !.run.at = "done"]
    /\ OnlyEv

\* lines 853-858: the rest of the text fits, the line is emitted and the
\* break leaves the loop
WrapRest ==
    /\ ev.step = "wrapping"
    /\ ev.run.fn = "wrapText" /\ ev.run.at = "outer"
    /\ LoopTest(ev.run)
    /\ Len(ev.run.text) - ev.run.pos <= ev.run.width
    /\ ev' = [ev EXCEPT
                !.step = "wrapped",
                !.run.lines = Append(@, SubString(ev.run.text, ev.run.pos,
                                                  Len(ev.run.text))),
                !.run.at = "done"]
    /\ OnlyEv

\* lines 860-877: one pass of the loop of wrapText that breaks the line
WrapLine ==
    /\ ev.step = "wrapping"
    /\ ev.run.fn = "wrapText" /\ ev.run.at = "outer"
    /\ LoopTest(ev.run)
    /\ Len(ev.run.text) - ev.run.pos > ev.run.width
    /\ \E breakPos \in {ForcedBreak(ev.run.pos, ev.run.width,
                                     BreakBack(ev.run.text, ev.run.pos,
                                               ev.run.pos + ev.run.width))} :
         ev' = [ev EXCEPT
                  !.run.lines = Append(@, SubString(ev.run.text, ev.run.pos,
                                                    breakPos)),
                  !.run.pos = SkipSpaces(ev.run.text, breakPos)]
    /\ OnlyEv

\* lines 965-966: a pass of the loop of wrapTextForFont begins
FontLineBegin ==
    /\ ev.step = "wrapping"
    /\ ev.run.fn = "wrapTextForFont" /\ ev.run.at = "outer"
    /\ LoopTest(ev.run)
    /\ ev' = [ev EXCEPT !.run.endPos = Len(ev.run.text), !.run.at = "inner"]
    /\ OnlyEv

\* lines 969-978: one pass of the shrinking loop
FontShrink ==
    /\ ev.step = "wrapping"
    /\ ev.run.at = "inner"
    /\ TooWide(ev.run.text, ev.run.pos, ev.run.endPos, ev.run.width,
               ev.run.fontSize, ev.run.glyph)
    /\ ev' = [ev EXCEPT
                !.run.endPos = ShrinkStep(ev.run.text, ev.run.pos, @)]
    /\ OnlyEv

\* lines 980-986: the shrinking loop is left and the line emitted
FontLineEnd ==
    /\ ev.step = "wrapping"
    /\ ev.run.at = "inner"
    /\ ~TooWide(ev.run.text, ev.run.pos, ev.run.endPos, ev.run.width,
                ev.run.fontSize, ev.run.glyph)
    /\ ev' = [ev EXCEPT
                !.run.lines = Append(@, SubString(ev.run.text, ev.run.pos,
                                                  ev.run.endPos)),
                !.run.pos = SkipSpaces(ev.run.text, ev.run.endPos),
                !.run.at = "outer"]
    /\ OnlyEv

NextSteps ==
    WrapStart \/ WrapReturn \/ WrapRest \/ WrapLine \/ FontLineBegin
      \/ FontShrink \/ FontLineEnd

\* a call that has been entered runs on: the processor executes the next
\* pass as long as there is one
SpecSteps == Init /\ [][NextSteps]_vars /\ WF_vars(NextSteps)

----------------------------------------------------------------------------
(* Properties *)

\* the calls of updateDisplay in the last step
Calls == {ev.ud[k] : k \in 1..Len(ev.ud)}

\* a call that did nothing past the comparison of line 1369
NoOp(c) ==
    ~c.fetched /\ ~c.matched /\ ~c.attempted /\ ~c.rendered /\ ~c.changed

\* the time codes updateDisplay can ask findClockImage for
TargetCodes == {to12HourFormat(w[1], w[2]) : w \in WallTimes}

\* C1: with one counted press pending (counted while no note was shown) and
\* no further press committed, handleButtonClick is called exactly once,
\* with count 1, as the primary action and with no secondary action, in the
\* first iteration whose now is more than 400 ms after the press; in every
\* earlier iteration nothing is resolved and the press stays pending.
C1_SingleClick ==
    [][(pc = "loop" /\ pending = 1 /\ ev'.press = "none")
         => IF ms - pressAt > DOUBLE_CLICK_MS
            THEN /\ ev'.hbc = <<1>>
                 /\ ev'.primary = 1 /\ ev'.secondary = 0
                 /\ pending' = 0 /\ clickCount' = 0
                 /\ ~waitingForDoubleClick'
            ELSE /\ ev'.hbc = <<>>
                 /\ ev'.primary = 0 /\ ev'.secondary = 0
                 /\ pending' = 1]_vars

\* C1 witness: a single press has just been resolved as the primary action
C1_Witness ==
    ev.hbc = <<1>> /\ ev.primary = 1 /\ ev.secondary = 0 /\ ev.press = "none"

\* C2: a press committed within 400 ms of the previous counted press is
\* added to the sequence and restarts the window (nothing is resolved in
\* that iteration); a sequence of two or more presses is resolved by
\* exactly one call of handleButtonClick with that count, as the secondary
\* action and with no primary action, and only in an iteration whose now is
\* more than 400 ms after the last counted press.
C2_DoubleClick ==
    [][/\ (pc = "loop" /\ pending >= 1 /\ ms - pressAt <= DOUBLE_CLICK_MS
             /\ ev'.press # "none")
          => /\ ev'.press = "offNote"
             /\ pending' = pending + 1
             /\ ev'.hbc = <<>> /\ ev'.primary = 0 /\ ev'.secondary = 0
       /\ (pc = "loop" /\ pending >= 2 /\ ev'.press = "none")
          => IF ms - pressAt > DOUBLE_CLICK_MS
             THEN /\ ev'.hbc = <<pending>>
                  /\ ev'.secondary = 1 /\ ev'.primary = 0
                  /\ pending' = 0 /\ clickCount' = 0
                  /\ ~waitingForDoubleClick'
             ELSE /\ ev'.hbc = <<>>
                  /\ ev'.primary = 0 /\ ev'.secondary = 0
                  /\ pending' = pending]_vars

\* C2 witness: two presses have just been resolved as one like of the poem
C2_Witness ==
    ev.hbc = <<2>> /\ ev.secondary = 1 /\ ev.primary = 0 /\ ev.likes # <<>>

\* C3: a press committed while showingNote is true dismisses the note in
\* the same iteration: showingNote becomes false, updateDisplay is called
\* with lastDisplayedTime reset to -1, clickCount is 0 and
\* waitingForDoubleClick false afterwards, the press is not counted and
\* handleButtonClick is not called; and handleButtonClick is only ever
\* called for counted presses.
C3_PressDismissesNote ==
    [][/\ (pc = "loop" /\ showingNote
             /\ buttonState = HIGH /\ buttonState' = LOW)
          => /\ ~showingNote'
             /\ ev'.press = "onNote"
             /\ Len(ev'.ud) >= 1
             /\ ev'.ud[1].src = "dismiss" /\ ev'.ud[1].ldt = NO_TIME
             /\ clickCount = 0 /\ clickCount' = 0
             /\ ~waitingForDoubleClick'
             /\ pending' = 0
             /\ ev'.hbc = <<>> /\ ev'.primary = 0 /\ ev'.secondary = 0
       /\ (ev'.hbc # <<>>) => pending > 0]_vars

\* C3 witness: a press has just dismissed the note
C3_Witness ==
    ev.press = "onNote" /\ ~showingNote /\ clickCount = 0
    /\ Len(ev.ud) >= 1 /\ ev.ud[1].src = "dismiss"

\* C4 (as stated): whenever the timeout branch clears showingNote, more
\* than 10000 ms of real time have passed since noteDisplayTime was set.
C4_TimeoutAfter10s ==
    ev.timeout => ev.elapsed > NOTE_TIMEOUT_MS

\* C5: the timeout branch clears showingNote only in an iteration in which
\* line 1515 read the pin HIGH; when it reads the pin LOW the note stays
\* shown, on the panel and in showingNote.
C5_NoTimeoutWhilePressed ==
    [][/\ ev'.timeout => (ev'.rawRead /\ ev'.rawAtCheck = HIGH)
       /\ (pc = "loop" /\ ev'.rawRead /\ ev'.rawAtCheck = LOW)
          => /\ showingNote' /\ screen'.kind = "note"
             /\ showingNote => screen' = screen]_vars

\* C5 witness: the timeout has expired, the pin read LOW, the note is shown
C5_Witness ==
    ev.rawRead /\ ev.rawAtCheck = LOW /\ showingNote /\ screen.kind = "note"

\* C6: updateDisplay is never called while showingNote is true, the
\* periodic refresh in particular only with showingNote false at line 1523;
\* and while the note is shown the panel changes only in an iteration in
\* which a press or the timeout dismisses the note.
C6_NoteNotRefreshed ==
    [][/\ \A k \in 1..Len(ev'.ud) : ~ev'.ud[k].note
       /\ ev'.periodic => ~ev'.noteAtRefresh
       /\ (pc = "loop" /\ showingNote /\ screen' # screen)
          => (~showingNote' /\ (ev'.press = "onNote" \/ ev'.timeout))]_vars

\* C6 witness: the refresh was due with the note shown and was not made
C6_Witness ==
    /\ ev.step = "loop" /\ ev.noteAtRefresh /\ ~ev.periodic
    /\ showingNote /\ screen.kind = "note"
    /\ ms - lastCheck >= REFRESH_MS

\* C7 (as stated): after a successful render for time code t, a call of
\* updateDisplay at time code t, no dismissal having reset
\* lastDisplayedTime since, fetches, matches and renders nothing and
\* changes nothing.
C7_NoOpUnlessDismissed ==
    \A c \in Calls :
        (c.rtc # NO_TIME /\ c.tc = c.rtc /\ "dismiss" \notin c.forced)
            => NoOp(c)

\* C7 (amended): the same, when neither a dismissal nor a successful like
\* has reset lastDisplayedTime since the render.
C7_NoOpUnlessForced ==
    \A c \in Calls :
        (c.rtc # NO_TIME /\ c.tc = c.rtc /\ c.forced = {}) => NoOp(c)

\* C7 witness: a call at the time code of the last render did nothing
C7_Witness ==
    \E c \in Calls :
        c.rtc # NO_TIME /\ c.tc = c.rtc /\ c.forced = {} /\ NoOp(c)

\* C8: a call of updateDisplay whose fetchPoem fails leaves the placeholder
\* as the poem text, goes on to findClockImage and, an image found, to
\* displayClockWithPoem, and renders exactly when the image is found,
\* downloaded and drawn.
C8_PlaceholderAndRender ==
    \A c \in Calls :
        (c.fetched /\ ~c.fetchOK)
            => /\ c.poem = Placeholder
               /\ c.matched
               /\ c.attempted = c.found
               /\ c.rendered = (c.found /\ c.dl /\ c.draw)

\* C8 witness: the fetch failed and the placeholder is on the panel
C8_Witness ==
    /\ \E c \in Calls : c.fetched /\ ~c.fetchOK /\ c.rendered
    /\ screen = [kind |-> "clock", text |-> Placeholder]
    /\ currentPoem = Placeholder

\* C9: with clockIndexCount = 0 findClockImage finds nothing for any time
\* code; a call of updateDisplay that reaches it attempts no render and
\* leaves lastDisplayedTime as it was, and an iteration that neither draws
\* the note nor shows "Liked!" leaves the panel as it was.
C9_EmptyCatalog ==
    [][/\ (clockIndexCount' = 0)
          => \A t \in TargetCodes, rnd \in 0..1 :
                ~findClockImage(clockIndex', clockIndexCount', t, rnd).found
       /\ \A k \in 1..Len(ev'.ud) :
            (ev'.ud[k].matched /\ ev'.ud[k].count = 0)
               => /\ ~ev'.ud[k].found /\ ~ev'.ud[k].attempted
                  /\ ~ev'.ud[k].rendered
                  /\ ev'.ud[k].ldtAfter = ev'.ud[k].ldt
       /\ (pc = "loop" /\ clockIndexCount = 0
             /\ ~ev'.noteDrawn /\ ev'.likes = <<>>)
          => screen' = screen]_vars

\* C9 witness: updateDisplay fetched a poem, found no image in the empty
\* catalog and left the panel with what setup() had put there
C9_Witness ==
    /\ clockIndexCount = 0 /\ ev.step = "loop"
    /\ \E c \in Calls : c.matched /\ c.count = 0 /\ ~c.found
    /\ screen.kind = "error"

PoemState ==
    <<currentPoem, currentFont, currentPoemId, currentNote, currentNoteId>>

\* C11 (as stated): a step whose only call of updateDisplay gets past line
\* 1371 and completes no render leaves currentPoem, currentFont,
\* currentPoemId, currentNote and currentNoteId as they were.
C11_FailedCycleKeepsPoem ==
    [][(Len(ev'.ud) = 1 /\ ev'.ud[1].fetched /\ ~ev'.ud[1].rendered)
          => PoemState' = PoemState]_vars

\* C12: a call of updateDisplay that finds the clock unavailable fetches,
\* matches and renders nothing and changes no global, lastDisplayedTime
\* and the poem and note state included.
C12_NoClockSkips ==
    [][/\ \A k \in 1..Len(ev'.ud) :
             (ev'.ud[k].tc = NO_TIME)
                => (NoOp(ev'.ud[k]) /\ ev'.ud[k].ldtAfter = ev'.ud[k].ldt)
       /\ (Len(ev'.ud) = 1 /\ ev'.ud[1].tc = NO_TIME
             /\ ev'.ud[1].src = "periodic")
          => (PoemState' = PoemState /\ screen' = screen
              /\ lastDisplayedTime' = lastDisplayedTime)]_vars

\* C12 witness: the periodic refresh found no clock and the poem on the
\* panel is still the one rendered before
C12_Witness ==
    /\ \E c \in Calls : c.tc = NO_TIME /\ c.src = "periodic"
    /\ lastDisplayedTime # NO_TIME /\ screen.kind = "clock"

\* the time codes of the catalog in catalog order
CatalogCodes == [k \in 1..clockIndexCount |-> clockIndex[k].timeCode]

\* C13: the distance findClockImage computes between the one entry's time
\* code a and the target b, both in [100,1259], is min(|a-b|, 1200-|a-b|),
\* and it is what the function computes for target a against entry b.
C13_CircularSymmetric ==
    (ev.step = "match" /\ clockIndexCount = 1
       /\ clockIndex[1].timeCode \in TimeCodes /\ ev.fnd.target \in TimeCodes)
    => /\ ev.fnd.found
       /\ ev.fnd.diff = Min(Abs(clockIndex[1].timeCode - ev.fnd.target),
                            WRAP_PERIOD
                              - Abs(clockIndex[1].timeCode - ev.fnd.target))
       /\ ev.fnd.diff = MatchDiff(clockIndex[1].timeCode, ev.fnd.target)
       /\ ev.fnd.diff = MatchDiff(ev.fnd.target, clockIndex[1].timeCode)

\* C13 witness: a pair whose distance is the wrapped one
C13_Witness ==
    /\ ev.step = "match" /\ clockIndexCount = 1
    /\ clockIndex[1].timeCode = 1259 /\ ev.fnd.target = 100
    /\ ev.fnd.diff = 41

\* C14: when the target equals the time code of some catalog entry, the
\* selected entry has that time code and the distance reported is 0,
\* wherever in the catalog the entry stands.
C14_ExactMatch ==
    (ev.step = "match"
       /\ \E k \in 1..clockIndexCount : CatalogCodes[k] = ev.fnd.target)
    => /\ ev.fnd.found
       /\ CatalogCodes[ev.fnd.entry + 1] = ev.fnd.target
       /\ ev.fnd.diff = 0

\* C14 witness: the exact match is the last of three entries, after one
\* that is close across the wrap
C14_Witness ==
    /\ ev.step = "match" /\ clockIndexCount = 3
    /\ CatalogCodes = <<1259, 130, 100>> /\ ev.fnd.target = 100
    /\ ev.fnd.entry = 2

\* C15 (as stated): for the catalog 100, 700 and target 1155 the entry 100
\* is selected, with distance 65 for entry 100 and 455 for entry 700.
C15_Distance65 ==
    (ev.step = "match" /\ CatalogCodes = <<100, 700>> /\ ev.fnd.target = 1155)
    => /\ ev.fnd.found /\ ev.fnd.entry = 0
       /\ ev.fnd.diff = 65
       /\ MatchDiff(CatalogCodes[1], ev.fnd.target) = 65
       /\ MatchDiff(CatalogCodes[2], ev.fnd.target) = 455

\* C15 (amended): for the catalog 100, 700 and target 1155 the entry 100 is
\* selected, with the wrap distance 1200 - 1055 = 145 for entry 100 and
\* 455 for entry 700.
C15_Distance145 ==
    (ev.step = "match" /\ CatalogCodes = <<100, 700>> /\ ev.fnd.target = 1155)
    => /\ ev.fnd.found /\ ev.fnd.entry = 0
       /\ ev.fnd.diff = 145
       /\ MatchDiff(CatalogCodes[1], ev.fnd.target) = 145
       /\ MatchDiff(CatalogCodes[2], ev.fnd.target) = 455

\* C15 witness: that catalog matched against that target
C15_Witness ==
    /\ ev.step = "match" /\ CatalogCodes = <<100, 700>>
    /\ ev.fnd.target = 1155 /\ ev.fnd.found

\* C16: on a non-empty catalog the selected entry is at the least circular
\* distance min(|a-b|, 1200-|a-b|) of all entries, that distance is the one
\* reported, and every entry before it in the catalog is farther.
C16_FirstNearest ==
    (ev.step = "match" /\ clockIndexCount > 0)
    => LET D(k) == Min(Abs(CatalogCodes[k] - ev.fnd.target),
                       WRAP_PERIOD - Abs(CatalogCodes[k] - ev.fnd.target))
           sel == ev.fnd.entry + 1
       IN /\ ev.fnd.found
          /\ sel \in 1..clockIndexCount
          /\ ev.fnd.diff = D(sel)
          /\ \A k \in 1..clockIndexCount : D(sel) <= D(k)
          /\ \A k \in 1..(sel - 1) : D(k) > D(sel)

\* C16 witness: two entries tie at the least distance behind a farther one,
\* and the earlier of the two is selected
C16_Witness ==
    /\ ev.step = "match" /\ CatalogCodes = <<700, 130, 100>>
    /\ ev.fnd.target = 115 /\ ev.fnd.entry = 1 /\ ev.fnd.diff = 15

\* C17: when the selected entry has k > 1 images the record returned is
\* one of its first k, random() is called and every index 0..k-1 can come
\* out of it; when it has one image that image is returned and random() is
\* not called.
C17_ImageChoice ==
    (ev.step = "match" /\ ev.fnd.found
       /\ clockIndex[ev.fnd.entry + 1].imageCount >= 1)
    => LET entry == clockIndex[ev.fnd.entry + 1]
       IN /\ ev.fnd.image \in 0..(entry.imageCount - 1)
          /\ ev.fnd.clock = entry.images[ev.fnd.image + 1]
          /\ ev.fnd.drew = (entry.imageCount > 1)
          /\ entry.imageCount > 1
               => \A j \in 0..(entry.imageCount - 1) :
                     \E rnd \in Rnds : PickImage(entry, rnd) = j
          /\ entry.imageCount = 1 => ev.fnd.image = 0

\* C17 witness: the last of three images was drawn
C17_Witness ==
    /\ ev.step = "match" /\ ev.fnd.found
    /\ clockIndex[ev.fnd.entry + 1].imageCount = 3
    /\ ev.fnd.image = 2 /\ ev.fnd.clock.url = "c.png"

\* the sizes a search runs through
Candidates(lay) ==
    IF lay.mode = "measured"
      THEN {FONT_SIZE_MIN + FONT_SIZE_STEP * k :
              k \in 0..((FONT_SIZE_MAX - FONT_SIZE_MIN) \div FONT_SIZE_STEP)}
    ELSE FIXED_SIZE_MIN..FIXED_SIZE_MAX

\* the block the wrapper produces for the text of a layout at a size
BlockAt(lay, size) ==
    IF lay.mode = "measured"
      THEN wrapTextForFont(lay.text, lay.usableWidth, size, lay.glyph,
                           lay.maxLines)
    ELSE wrapText(lay.text, CharsPerLine(lay.usableWidth, size), lay.maxLines)

\* a size is tested unless fewer than 8 characters fit a line (line 906),
\* and fits when its block is within the line limit and the usable height
FitsAt(lay, size) ==
    /\ lay.mode = "fixed"
         => CharsPerLine(lay.usableWidth, size) >= MIN_CHARS_PER_LINE
    /\ Len(BlockAt(lay, size)) <= lay.maxLines
    /\ IF lay.mode = "fixed"
         THEN FixedHeight(Len(BlockAt(lay, size)), size) <= lay.usableHeight
       ELSE IF lay.fn = "note"
         THEN NoteHeight10(Len(BlockAt(lay, size)), size)
                <= 10 * lay.usableHeight
       ELSE PoemHeight(Len(BlockAt(lay, size)), size) <= lay.usableHeight

C19_LineLimit ==
    (ev.step \in {"poem", "note"})
    => /\ ev.lay.lineCount = Len(ev.lay.lines)
       /\ ev.lay.lineCount <= ev.lay.maxLines
       /\ ev.lay.maxLines
            = IF ev.lay.fn = "note" THEN NOTE_MAX_LINES ELSE POEM_MAX_LINES

\* C19 witness: a poem laid out with the built-in font over all 6 lines
\* from a text that needs more
C19_Witness ==
    /\ ev.step = "poem" /\ ev.lay.mode = "fixed" /\ ev.lay.accepted
    /\ ev.lay.lineCount = POEM_MAX_LINES
    /\ Len(ev.lay.text) > POEM_MAX_LINES * MIN_CHARS_PER_LINE

\* the characters of a text other than spaces, in order
NonSpace(text) == SelectSeq(text, LAMBDA ch : ch # " ")

RECURSIVE Joined(_)
Joined(lines) ==
    IF lines = <<>> THEN <<>> ELSE Head(lines) \o Joined(Tail(lines))

\* C20 (as stated): whenever the measured search of renderPoemText accepts
\* a size, the accepted lines hold every non-space character of the text,
\* in order.
C20_NothingCutOff ==
    (ev.step = "poem" /\ ev.lay.mode = "measured" /\ ev.lay.accepted)
    => NonSpace(Joined(ev.lay.lines)) = NonSpace(ev.lay.text)

\* a text with every run of spaces made one space
RECURSIVE Collapsed(_)
Collapsed(text) ==
    IF text = <<>> THEN <<>>
    ELSE IF Len(text) >= 2 /\ text[1] = " " /\ text[2] = " "
      THEN Collapsed(Tail(text))
    ELSE <<Head(text)>> \o Collapsed(Tail(text))

\* lines joined with single spaces
RECURSIVE JoinedBySpaces(_)
JoinedBySpaces(lines) ==
    IF lines = <<>> THEN <<>>
    ELSE IF Len(lines) = 1 THEN lines[1]
    ELSE lines[1] \o <<" ">> \o JoinedBySpaces(Tail(lines))

\* C21 (as stated): the lines wrapText or wrapTextForFont produces, joined
\* with single spaces, are the input text with every run of spaces made one
\* space.
C21_RoundTrip ==
    (ev.step = "wrap")
    => JoinedBySpaces(ev.wrp.lines) = Collapsed(ev.wrp.text)

C23_DebouncedChange ==
    [][(ev'.step = "loop" /\ (buttonState' # buttonState
                                \/ ev'.press # "none"))
         => /\ ev'.reading # buttonState
            /\ buttonState' = ev'.reading
            /\ ev'.reading = lastButtonReading
            /\ U32Gt(U32Sub(ms, lastDebounceTime), DEBOUNCE_MS)]_vars

\* C24: in an iteration of loop() clickCount grows only by one, by a
\* debounced press while no note is shown, and every such press counts; a
\* resolved action (handleButtonClick called, or a press that dismisses
\* the note) happens at most once, leaves clickCount = 0, and nothing else
\* takes clickCount back to 0; at the end of the iteration clickCount > 0
\* exactly when waitingForDoubleClick.
C24_ClickCount ==
    [][(ev'.step = "loop")
         => /\ (clickCount' > clickCount)
                 => (ev'.press = "offNote" /\ ~showingNote
                     /\ clickCount' = clickCount + 1)
            /\ (ev'.press = "offNote") => (clickCount' = clickCount + 1)
            /\ Len(ev'.hbc) + (IF ev'.press = "onNote" THEN 1 ELSE 0) <= 1
            /\ (ev'.hbc # <<>> \/ ev'.press = "onNote")
                 => (clickCount' = 0 /\ ~waitingForDoubleClick')
            /\ (ev'.hbc # <<>>) => (ev'.hbc[1] = clickCount /\ clickCount > 0)
            /\ (clickCount' < clickCount)
                 => (ev'.hbc # <<>> \/ ev'.press = "onNote")
            /\ (clickCount' > 0) <=> waitingForDoubleClick']_vars

\* C24 witness: two counted presses have just been resolved as one action
C24_Witness ==
    /\ ev.step = "loop" /\ ev.hbc = <<2>> /\ ev.secondary = 1
    /\ clickCount = 0 /\ ~waitingForDoubleClick

\* C25: for hour 0..23 and minute 0..59 the time code is hour12 * 100 +
\* minute with hour12 in 1..12 and hour12 = hour modulo 12, hours 0 and 12
\* giving 12; it lies in [100,1259]; the hour 12 hours away gives the same
\* code.
C25_TwelveHourCode ==
    (ev.step = "time")
    => /\ \E hour12 \in 1..12 :
             /\ ev.tim.code = hour12 * 100 + ev.tim.minute
             /\ hour12 % 12 = ev.tim.hour24 % 12
       /\ ev.tim.hour24 \in {0, 12} => ev.tim.code = 1200 + ev.tim.minute
       /\ ev.tim.code >= 100 /\ ev.tim.code <= 1259
       /\ ev.tim.code
            = to12HourFormat((ev.tim.hour24 + 12) % 24, ev.tim.minute)

\* C25 witness: one minute to one o'clock at night
C25_Witness ==
    /\ ev.step = "time" /\ ev.tim.hour24 = 0 /\ ev.tim.minute = 59
    /\ ev.tim.code = 1259

\* C26: a single click resolved while no note is shown and the note text
\* is not empty draws the note and sets showingNote, with custom fonts or
\* without; with no note text it draws no note and leaves showingNote alone.
C26_SingleClickShowsNote ==
    [][(ev'.step = "loop" /\ ev'.primary = 1 /\ ~showingNote)
         => /\ (currentNote # "") => ev'.noteDrawn
            /\ (currentNote = "") => (~ev'.noteDrawn /\ ~showingNote')]_vars

\* C27: one continuous LOW interval of the pin produces at most one
\* debounced press event, whatever runs meanwhile.
C27_OnePressPerHold == holdPresses <= 1

\* C29: once a clock with its poem has been rendered, a like is sent for
\* the ID that arrived with the poem text of the last successful render.
C29_LikeTargetsShownPoem ==
    [][(renderedTc # NO_TIME)
         => \A k \in 1..Len(ev'.likes) : ev'.likes[k] = shownPoemId]_vars

\* C28: as long as every call of updateDisplay that got past the
\* comparison of the time code has rendered the clock, at the end of every
\* iteration the panel shows the note iff showingNote, and an iteration
\* that dismisses the note (by a press or by the idle timeout) renders the
\* clock.
C28_ScreenFollowsFlag ==
    [][(ev'.step = "loop" /\ allRendered')
         => /\ (screen'.kind = "note") <=> showingNote'
            /\ (ev'.timeout \/ ev'.press = "onNote")
                 => \E k \in 1..Len(ev'.ud) : ev'.ud[k].rendered]_vars

\* C30: at the end of every iteration showingNote implies clickCount = 0
\* and not waitingForDoubleClick; handleButtonClick is never called while a
\* note is shown, so neither its toggle branch (lines 522-525) nor the
\* redraw of the note after a like (lines 552-553) ever runs.
C30_NoClicksOverNote ==
    [][(ev'.step = "loop")
         => /\ showingNote' => (clickCount' = 0 /\ ~waitingForDoubleClick')
            /\ (ev'.hbc # <<>>) => ~showingNote
            /\ \A k \in 1..Len(ev'.ud) : ev'.ud[k].src # "toggle"
            /\ ~(ev'.secondary > 0 /\ ev'.noteDrawn)]_vars

\* C30 witness: a single click has just put the note on the panel
C30_Witness ==
    /\ ev.step = "loop" /\ ev.hbc = <<1>> /\ ev.noteDrawn /\ showingNote
    /\ screen.kind = "note" /\ clickCount = 0 /\ ~waitingForDoubleClick

\* C31: while the loop keeps iterating, a pending click sequence of n > 0
\* presses is eventually resolved: handleButtonClick is called with a count
\* of at least n, or a dismissal clears the sequence, and clickCount is 0
\* again.
C31_PendingResolved ==
    \A n \in 1..MaxClicks :
       (waitingForDoubleClick /\ clickCount = n)
         ~> (/\ clickCount = 0 /\ ~waitingForDoubleClick
             /\ \/ (ev.hbc # <<>> /\ ev.hbc[1] >= n)
                \/ ev.press = "onNote")

\* C31 witness: three presses, each within 400 ms of the one before, have
\* just been resolved together
C31_Witness ==
    /\ ev.step = "loop" /\ ev.hbc = <<MaxClicks>> /\ clickCount = 0
    /\ ~waitingForDoubleClick /\ pending = 0

\* the first position from p on that holds no space (the end of the text
\* if there is none), positions counted from 0
NextWord(text, p) ==
    CHOOSE q \in p..Len(text) :
       /\ q = Len(text) \/ text[q + 1] # " "
       /\ \A j \in p..(q - 1) : text[j + 1] = " "

\* where line k of lines starts in text, the lines being consecutive
\* pieces of the text with the spaces after each piece left out
RECURSIVE LineStart(_, _, _)
LineStart(text, lines, k) ==
    IF k = 1 THEN 0
    ELSE NextWord(text, LineStart(text, lines, k - 1) + Len(lines[k - 1]))

\* the positions of the spaces among the n characters after position from
SpacesAfter(text, from, n) ==
    {q \in (from + 1)..(from + n) : q < Len(text) /\ text[q + 1] = " "}

\* line k of a call of wrapText is the rest of the text if that has at most
\* maxCharsPerLine characters, else it ends at the last space among the
\* maxCharsPerLine characters after its first one, else, there being no
\* such space, it has maxCharsPerLine characters
BrokenByRule(w, k) ==
    LET from == LineStart(w.text, w.lines, k)
        to == from + Len(w.lines[k])
        spaces == SpacesAfter(w.text, from, w.width)
    IN /\ w.lines[k] = SubSeq(w.text, from + 1, to)
       /\ Len(w.lines[k]) <= w.width
       /\ IF Len(w.text) - from <= w.width THEN to = Len(w.text)
          ELSE IF spaces = {} THEN to = from + w.width
          ELSE to \in spaces /\ \A q \in spaces : q <= to

\* C32: every line of wrapText has at most maxCharsPerLine characters and
\* is cut inside a word only if no space stands among the maxCharsPerLine
\* characters after its first one, else at the last such space; every line
\* of wrapTextForFont of more than one character is at most maxWidth wide.
C32_LinesFit ==
    (ev.step = "wrap")
    => /\ (ev.wrp.fn = "wrapText")
            => \A k \in 1..Len(ev.wrp.lines) : BrokenByRule(ev.wrp, k)
       /\ (ev.wrp.fn = "wrapTextForFont")
            => \A k \in 1..Len(ev.wrp.lines) :
                  Len(ev.wrp.lines[k]) > 1
                    => getTextWidth(ev.wrp.lines[k], ev.wrp.fontSize,
                                    ev.wrp.glyph) <= ev.wrp.width

\* C32 witness: a word of ten letters cut after eight, no space in reach
C32_Witness ==
    /\ ev.step = "wrap" /\ ev.wrp.fn = "wrapText" /\ ev.wrp.width = 8
    /\ ev.wrp.text = Word(10)
    /\ ev.wrp.lines = <<Word(8), <<"a", "b">>>>

\* C33 (as stated): after fetchClockIndex has loaded a catalog from a
\* document that parses, the catalog has at most 200 entries and every
\* entry has between 1 and 5 images.
C33_EntriesHaveImages ==
    (ev.step = "index" /\ ev.fci = "ok")
    => /\ clockIndexCount <= MAX_ENTRIES
       /\ \A k \in 1..clockIndexCount :
             /\ clockIndex[k].imageCount >= 1
             /\ clockIndex[k].imageCount <= MAX_IMAGES

\* C34: every pass of the outer loop of wrapText and of wrapTextForFont
\* emits one line and moves pos forward by at least one character, every
\* pass of the shrinking loop lowers endPos and keeps it above pos, and
\* every call returns.
C34_WrappersTerminate ==
    /\ [][(ev.step = "wrapping")
            => /\ (ev.run.at = "outer" /\ ev'.run.at = "outer")
                    => /\ Len(ev'.run.lines) = Len(ev.run.lines) + 1
                       /\ ev'.run.pos > ev.run.pos
               /\ (ev.run.at = "inner" /\ ev'.run.at = "outer")
                    => /\ Len(ev'.run.lines) = Len(ev.run.lines) + 1
                       /\ ev'.run.pos > ev.run.pos
               /\ (ev.run.at = "inner" /\ ev'.run.at = "inner")
                    => /\ ev'.run.endPos < ev.run.endPos
                       /\ ev'.run.endPos > ev.run.pos
               /\ (ev'.run.at = "inner") => ev'.run.endPos > ev'.run.pos]_vars
    /\ (ev.step = "wrapping") ~> (ev.step = "wrapped")

\* C34 witness: wrapTextForFont has returned after shrinking a line of a
\* text without spaces character by character
C34_Witness ==
    /\ ev.step = "wrapped" /\ ev.run.fn = "wrapTextForFont"
    /\ ev.run.text = Word(7) /\ ev.run.width = 60 /\ ev.run.fontSize = 24
    /\ ev.run.glyph.letter = 6 /\ ev.run.maxLines = 8
    /\ ev.run.lines = <<Word(4), <<"a", "b", "a">>>>

====
